---- MODULE Spec2Model ----
(***************************************************************************)
(* A model of the MiniLlama2 tutorial notebooks:                           *)
(*   Lesson 4: the hand-written MultiHeadAttention and TransformerBlock,   *)
(*   Lesson 5: PositionalEncoding, the MultiHeadAttention wrapper around   *)
(*             nn.MultiheadAttention, TransformerBlock and LanguageModel.  *)
(* Tensors are functions over 0-based indices, as in the source; a shape   *)
(* is a sequence of sizes.  Real arithmetic that the integers cannot carry *)
(* (sin, cos, layer normalisation) is kept symbolic; softmax is carried    *)
(* exactly as fractions.                                                   *)
(***************************************************************************)
EXTENDS Integers, Sequences, FiniteSets, TLC

VARIABLES kernel, lm, pc, inp, x, blk, err, attn, steps, obj4, res4,
          rng, expr, deps, prev, data, tpc, train, fwd, cell2

vars == <<kernel, lm, pc, inp, x, blk, err, attn, steps, obj4, res4,
          rng, expr, deps, prev, data, tpc, train, fwd, cell2>>

\* ------------------------------------------------------------------ bounds
MaxVocab == 2
MaxEmbed == 4
MaxHeads == 3
MaxLayers == 2
MaxFF == 1
MaxSeqLen == 2
MaxBatch == 2
MaxSeq == 3
NumSeeds == 2
NumPatterns == 2

MaxIters == 2
MaxText == 4

\* embedding_dim = 10 in the cell of Lesson 2
embedding_dim == 10

\* The draws of the generator a run may make: one call of the deepest model.
MaxDraws == 2 * MaxLayers

\* ------------------------------------------------------------ shape algebra
\* A shape no operation produces: the operation raised.
BadShape == << -1 >>

IsBad(s) == s = BadShape

Min(a, b) == IF a <= b THEN a ELSE b

Max(a, b) == IF a >= b THEN a ELSE b

\* Broadcasting of one pair of sizes: equal, or one of them is 1.
BroadcastDim(a, b) ==
    IF a = b THEN a
    ELSE IF a = 1 THEN b
    ELSE IF b = 1 THEN a
    ELSE -1

\* torch.cat((a, b), dim=-1) in place of a + b: the last dimensions add up.
BroadcastShapesConcat(s1, s2) ==
    IF IsBad(s1) \/ IsBad(s2) \/ Len(s1) = 0 \/ Len(s2) = 0 THEN BadShape
    ELSE Append(SubSeq(s1, 1, Len(s1) - 1), s1[Len(s1)] + s2[Len(s2)])

\* Broadcasting of two shapes, aligned on their trailing dimensions.
BroadcastShapes(s1, s2) ==
    IF IsBad(s1) \/ IsBad(s2) THEN BadShape
    ELSE LET n == Max(Len(s1), Len(s2))
             At(s, i) == IF i > n - Len(s) THEN s[i - (n - Len(s))] ELSE 1
             r == SubSeq([i \in 1..n |-> BroadcastDim(At(s1, i), At(s2, i))], 1, n)
         IN IF \E i \in 1..n : r[i] = -1 THEN BadShape ELSE r

\* nn.Linear(in_features, out_features) on a tensor of shape s.
LinearShape(s, in_features, out_features) ==
    IF IsBad(s) \/ Len(s) = 0 THEN BadShape
    ELSE IF s[Len(s)] # in_features THEN BadShape
    ELSE Append(SubSeq(s, 1, Len(s) - 1), out_features)

\* nn.LayerNorm(normalized_shape = embed_dim) on a tensor of shape s.
LayerNormShape(s, embed_dim) ==
    IF IsBad(s) \/ Len(s) = 0 THEN BadShape
    ELSE IF s[Len(s)] # embed_dim THEN BadShape
    ELSE s

\* tensor.transpose(i, j), dimensions counted from 0.
TransposeShape(s, i, j) ==
    IF IsBad(s) \/ Len(s) <= Max(i, j) THEN BadShape
    ELSE SubSeq([n \in 1..Len(s) |->
                   IF n = i + 1 THEN s[j + 1]
                   ELSE IF n = j + 1 THEN s[i + 1] ELSE s[n]], 1, Len(s))

\* ------------------------------------------- Lesson 5: PositionalEncoding
\* An entry of the table.  sin and cos stay symbolic: fn applied to the angle
\* pos * div_term, where div_term = exp(k * -(ln 10000 / embed_dim)) > 0 and
\* k is the value of torch.arange(0, embed_dim, 2) for that column pair.
ZeroEntry == [fn |-> "zero", pos |-> 0, k |-> 0]

\* len(torch.arange(0, embed_dim, 2))
DivTermLen(embed_dim) == (embed_dim + 1) \div 2

\* torch.arange(0, embed_dim, 2): the k of each entry of div_term
DivTermK(embed_dim) == [i \in 0..(DivTermLen(embed_dim) - 1) |-> 2 * i]

\* pe[:, 0::2] = torch.cos(position * div_term): cosines in the even columns.
SinTableAsCos(embed_dim, max_seq_length) ==
    [p \in 0..(max_seq_length - 1) |->
        [i \in 0..(DivTermLen(embed_dim) - 1) |->
            [fn |-> "cos", pos |-> p, k |-> 2 * i]]]

\* torch.sin(position * div_term), shape (max_seq_length, len(div_term))
SinTable(embed_dim, max_seq_length) ==
    [p \in 0..(max_seq_length - 1) |->
        [i \in 0..(DivTermLen(embed_dim) - 1) |->
            [fn |-> "sin", pos |-> p, k |-> DivTermK(embed_dim)[i]]]]

\* torch.cos(position * div_term), shape (max_seq_length, len(div_term))
CosTable(embed_dim, max_seq_length) ==
    [p \in 0..(max_seq_length - 1) |->
        [i \in 0..(DivTermLen(embed_dim) - 1) |->
            [fn |-> "cos", pos |-> p, k |-> DivTermK(embed_dim)[i]]]]

\* Number of columns of the slice [:, start::2] of a table embed_dim wide.
StridedCols(embed_dim, start) ==
    IF embed_dim > start THEN (embed_dim - start + 1) \div 2 ELSE 0

\* An assignment that takes src only when it has the columns of the slice.
StridedAssignOKExact(embed_dim, start, srcCols) ==
    srcCols = StridedCols(embed_dim, start)

\* pe[:, start::2] = src is accepted when src broadcasts to the slice.
StridedAssignOK(embed_dim, start, srcCols) ==
    srcCols = StridedCols(embed_dim, start) \/ srcCols = 1

\* pe[:, start::2] = src, src having srcCols columns.
StridedAssign(pe, embed_dim, max_seq_length, start, src, srcCols) ==
    [p \in 0..(max_seq_length - 1) |->
        [c \in 0..(embed_dim - 1) |->
            IF c >= start /\ (c - start) % 2 = 0
            THEN src[p][IF srcCols = 1 THEN 0 ELSE (c - start) \div 2]
            ELSE pe[p][c]]]

\* The value of an entry whose angle is 0: sin(0) = 0, cos(0) = 1.
AngleIsZero(e) == e.pos = 0

EntryAtZero(e) == IF e.fn = "cos" THEN 1 ELSE 0

\* PositionalEncoding.__init__: [ok, pe]
PositionalEncodingInit(embed_dim, max_seq_length) ==
    LET zeros == [p \in 0..(max_seq_length - 1) |->
                    [c \in 0..(embed_dim - 1) |-> ZeroEntry]]
        n == DivTermLen(embed_dim)
        evens == StridedAssign(zeros, embed_dim, max_seq_length, 0,
                               SinTable(embed_dim, max_seq_length), n)
        odds == StridedAssign(evens, embed_dim, max_seq_length, 1,
                              CosTable(embed_dim, max_seq_length), n)
    IN IF ~StridedAssignOK(embed_dim, 0, n) THEN [ok |-> FALSE, pe |-> <<>>]
       ELSE IF ~StridedAssignOK(embed_dim, 1, n) THEN [ok |-> FALSE, pe |-> <<>>]
       ELSE [ok |-> TRUE, pe |-> odds]

\* ------------------------------------------------------- dataflow terms
\* What a forward pass computes, as a term: the operation, the terms it is
\* applied to and, for a dropout in training mode, which draw of the global
\* generator made its mask (0: no draw).
Node(op, args, draw) == [op |-> op, args |-> args, draw |-> draw]

\* The argument x of forward.
Leaf == Node("x", <<>>, 0)

\* A dropout that drops in every mode.
DropoutInEveryMode(t, training, draw) == Node("dropout", <<t>>, draw)

\* self.dropout(t), nn.Dropout(dropout): the identity unless the module is
\* in training mode; in training mode a mask drawn from the global generator.
Dropout(t, training, draw) ==
    IF training THEN Node("dropout", <<t>>, draw) ELSE t

\* ------------------------------------- Lesson 5: MultiHeadAttention wrapper
\* nn.MultiheadAttention(embed_dim, num_heads): head_dim = embed_dim // num_heads
\* and the assertion head_dim * num_heads == embed_dim.
MultiHeadAttention5Init(embed_dim, num_heads) ==
    LET head_dim == embed_dim \div num_heads
    IN [ok |-> head_dim * num_heads = embed_dim, head_dim |-> head_dim]

\* MultiHeadAttention.forward of Lesson 5 on a tensor of shape s:
\* transpose to (seq_len, batch, embed_dim), nn.MultiheadAttention with its
\* defaults (need_weights, averaged over heads), transpose back.
MultiHeadAttention5Forward(s, embed_dim, num_heads) ==
    LET xt == TransposeShape(s, 0, 1)
        ok == ~IsBad(xt) /\ Len(xt) = 3 /\ xt[3] = embed_dim
        attn_output == IF ok THEN xt ELSE BadShape
        attn_weights == IF ok THEN <<xt[2], xt[1], xt[1]>> ELSE BadShape
    IN [out |-> TransposeShape(attn_output, 0, 1), weights |-> attn_weights]

\* ----------------------------------------- Lesson 5: TransformerBlock
\* TransformerBlock.__init__: the attention is the only part that can fail.
TransformerBlock5Init(embed_dim, num_heads, ff_hidden_dim) ==
    MultiHeadAttention5Init(embed_dim, num_heads).ok

\* self.ffn: Linear(embed_dim, ff_hidden_dim), ReLU, Linear(ff_hidden_dim, embed_dim)
FfnShape(s, embed_dim, ff_hidden_dim) ==
    LinearShape(LinearShape(s, embed_dim, ff_hidden_dim), ff_hidden_dim, embed_dim)

\* TransformerBlock.forward of Lesson 5 on a tensor of shape s: [shape, weights]
TransformerBlock5Forward(s, embed_dim, num_heads, ff_hidden_dim) ==
    LET a == MultiHeadAttention5Forward(s, embed_dim, num_heads)
        x1 == LayerNormShape(BroadcastShapes(s, a.out), embed_dim)
        ff_output == FfnShape(x1, embed_dim, ff_hidden_dim)
        x2 == LayerNormShape(BroadcastShapes(x1, ff_output), embed_dim)
    IN [shape |-> x2, weights |-> IF IsBad(x2) THEN BadShape ELSE a.weights]

\* TransformerBlock.forward of Lesson 5 as a term over its argument xin, the
\* generator having made `drawn` draws before the call: [out, attn_weights].
TransformerBlock5Term(xin, training, drawn) ==
    LET attn_output == Node("attention", <<xin>>, 0)
        x1 == Node("norm1",
                   <<Node("add", <<xin, Dropout(attn_output, training, drawn + 1)>>,
                          0)>>, 0)
        ff_output == Node("ffn", <<x1>>, 0)
        x2 == Node("norm2",
                   <<Node("add", <<x1, Dropout(ff_output, training, drawn + 2)>>,
                          0)>>, 0)
    IN [out |-> x2, attn_weights |-> attn_output]

\* The draws of the generator one TransformerBlock.forward makes.
BlockDraws(training) == IF training THEN 2 ELSE 0

\* Which input positions each hidden position (b, t) is computed from, as a
\* (B, S) table of sets of positions: after self.embedding, its own.
EmbeddingDeps(B, S) ==
    SubSeq([b \in 1..B |->
              SubSeq([t \in 1..S |-> {<<b - 1, t - 1>>}], 1, S)], 1, B)

\* The built-in attention given x as it comes, (batch, seq_len, embed_dim),
\* without the transpose: it attends along axis 0, over the batch elements.
AttentionDepsOverBatch(d) ==
    SubSeq([b \in 1..Len(d) |->
              SubSeq([t \in 1..Len(d[b]) |->
                        UNION {d[c][t] : c \in 1..Len(d)}], 1, Len(d[b]))],
           1, Len(d))

\* self.attention(x, x, x) of nn.MultiheadAttention, called with no attn_mask:
\* every query position attends to every key position of its batch element
\* (softmax weights are positive), so position t is computed from all of them.
AttentionDeps(d) ==
    SubSeq([b \in 1..Len(d) |->
              SubSeq([t \in 1..Len(d[b]) |->
                        UNION {d[b][u] : u \in 1..Len(d[b])}], 1, Len(d[b]))],
           1, Len(d))

\* The parameter-holding submodules of one TransformerBlock.
BlockSlots == <<"attention", "ffn.0", "ffn.2", "norm1", "norm2">>

\* TransformerBlock(...): the constructor makes new parameter tensors for
\* each of its submodules; tensors are named by allocation number, from
\* first on.
TransformerBlock5Params(first) ==
    SubSeq([k \in 1..Len(BlockSlots) |-> first + k - 1], 1, Len(BlockSlots))

\* [TransformerBlock(...)] * num_layers: one block, listed num_layers times.
TransformerBlocksShared(num_layers, first) ==
    SubSeq([i \in 1..num_layers |-> TransformerBlock5Params(first)],
           1, num_layers)

\* nn.ModuleList([TransformerBlock(...) for _ in range(num_layers)]): the
\* constructor runs once per layer.
TransformerBlocks(num_layers, first) ==
    SubSeq([i \in 1..num_layers |->
              TransformerBlock5Params(first + (i - 1) * Len(BlockSlots))],
           1, num_layers)

\* The parameter tensors LanguageModel.__init__ makes, in its order:
\* embedding, the blocks, output_layer (the pe table is a buffer).
LanguageModelParams(num_layers) ==
    [embedding |-> 0,
     blocks |-> TransformerBlocks(num_layers, 1),
     output_layer |-> 1 + num_layers * Len(BlockSlots)]

\* --------------------------------------------- Lesson 5: LanguageModel
\* LanguageModel.__init__, in the order of its statements: what fails first.
LanguageModelInit(vocab_size, embed_dim, num_heads, num_layers, ff_hidden_dim, max_seq_length) ==
    LET p == PositionalEncodingInit(embed_dim, max_seq_length)
        failed_at ==
            IF ~p.ok THEN "positional_encoding"
            ELSE IF num_layers >= 1
                    /\ ~TransformerBlock5Init(embed_dim, num_heads, ff_hidden_dim)
                 THEN "transformer_blocks"
            ELSE "nothing"
    IN [status |-> IF failed_at = "nothing" THEN "ok" ELSE "error",
        failed_at |-> failed_at,
        vocab_size |-> vocab_size, embed_dim |-> embed_dim,
        num_heads |-> num_heads, num_layers |-> num_layers,
        ff_hidden_dim |-> ff_hidden_dim, max_seq_length |-> max_seq_length,
        pe |-> p.pe, training |-> TRUE,
        params |-> LanguageModelParams(num_layers)]

NoModel ==
    [status |-> "none", failed_at |-> "nothing", vocab_size |-> 0,
     embed_dim |-> 0, num_heads |-> 0, num_layers |-> 0, ff_hidden_dim |-> 0,
     max_seq_length |-> 0, pe |-> <<>>, training |-> TRUE,
     params |-> [embedding |-> 0, blocks |-> <<>>, output_layer |-> 0]]

\* nn.Embedding(vocab_size, embed_dim, max_norm=1.0): every lookup rescales
\* the rows it reads, in place.
EmbeddingWeightRenormed(version) == version + 1

\* The embedding weight (as the version of the parameters) after a lookup:
\* nn.Embedding(vocab_size, embed_dim) has max_norm=None and only reads it.
EmbeddingWeightAfter(version) == version

\* A batch of token IDs of shape (B, S): IDs (b + t) mod vocab_size, but w
\* at position (b0, t0).
TokenIds(B, S, vocab_size, b0, t0, w) ==
    [b \in 0..(B - 1) |->
        [t \in 0..(S - 1) |->
            IF b = b0 /\ t = t0 THEN w ELSE (b + t) % vocab_size]]

NoInput == [shape |-> <<>>, ids |-> <<>>]

NoTensor == [shape |-> <<>>, el |-> <<>>, via |-> <<>>]

\* An index check that lets negative IDs count from the end of the table.
EmbeddingOKWrap(in, vocab_size) ==
    \A b \in 0..(in.shape[1] - 1) : \A t \in 0..(in.shape[2] - 1) :
        in.ids[b][t] >= -vocab_size /\ in.ids[b][t] < vocab_size

\* self.embedding(x): every ID must be a row of the table.
EmbeddingOK(in, vocab_size) ==
    \A b \in 0..(in.shape[1] - 1) : \A t \in 0..(in.shape[2] - 1) :
        in.ids[b][t] >= 0 /\ in.ids[b][t] < vocab_size

\* self.embedding(x): element (b, t, d) is column d of row ids[b][t].
Embedding(in, embed_dim) ==
    [shape |-> in.shape \o <<embed_dim>>,
     el |-> [b \in 0..(in.shape[1] - 1) |->
               [t \in 0..(in.shape[2] - 1) |->
                  [d \in 0..(embed_dim - 1) |->
                     [tok |-> in.ids[b][t], col |-> d, pe |-> ZeroEntry]]]],
     via |-> <<>>]

\* Index into a dimension of the given size under broadcasting.
BroadcastIndex(size, i) == IF size = 1 THEN 0 ELSE i

\* self.pe[:seq_len, :] has Min(seq_len, max_seq_length) rows.
PeSliceShape(seq_len, embed_dim, max_seq_length) ==
    <<Min(seq_len, max_seq_length), embed_dim>>

\* x + self.pe[0]: the first row at every position.
PeRowFirst(t, seq_len, max_seq_length) == 0

\* The row of pe added at position t of a sequence of length seq_len.
PeRow(t, seq_len, max_seq_length) ==
    BroadcastIndex(Min(seq_len, max_seq_length), t)

\* PositionalEncoding.forward: x + self.pe[:seq_len, :]
PositionalEncodingForward(h, pe, embed_dim, max_seq_length) ==
    LET seq_len == h.shape[2]
        shape == BroadcastShapes(h.shape,
                     PeSliceShape(seq_len, embed_dim, max_seq_length))
    IN IF IsBad(shape) THEN [shape |-> BadShape, el |-> <<>>, via |-> <<>>]
       ELSE [shape |-> shape,
             el |-> [b \in 0..(shape[1] - 1) |->
                       [t \in 0..(shape[2] - 1) |->
                          [d \in 0..(shape[3] - 1) |->
                             [h.el[b][t][d] EXCEPT
                                 !.pe = pe[PeRow(t, seq_len, max_seq_length)][d]]]]],
             via |-> h.via]

\* "for block in self.transformer_blocks": the block of the i-th iteration.
BlockOrder(i, num_layers) == i

\* "_, _ = block(x)": x is not rebound.
BlockRebindKeep(h, out) == h

\* "x, _ = block(x)": what x is bound to after the call, h being x before it
\* and out the hidden state the block returned.
BlockRebind(h, out) == out

\* An output layer nn.Linear(embed_dim, embed_dim).
OutputLayerShapeToEmbed(s, embed_dim, vocab_size) ==
    LinearShape(s, embed_dim, embed_dim)

\* self.output_layer = nn.Linear(embed_dim, vocab_size) applied to shape s.
OutputLayerShape(s, embed_dim, vocab_size) ==
    LinearShape(s, embed_dim, vocab_size)

\* ------------------------------------------------- Lesson 4: tensors
\* A tensor with values: its shape, its strides and its storage.  The element
\* at index idx is storage[sum of idx[i] * stride[i]].  The storage is a
\* sequence, so offset o is data[o + 1].
RECURSIVE Prod(_, _)
\* s[i] * s[i + 1] * ... * s[Len(s)]
Prod(s, i) == IF i > Len(s) THEN 1 ELSE s[i] * Prod(s, i + 1)

Numel(s) == Prod(s, 1)

RECURSIVE Sum(_, _)
\* f[0] + ... + f[n - 1]
Sum(f, n) == IF n = 0 THEN 0 ELSE f[n - 1] + Sum(f, n - 1)

\* The strides of a contiguous (row-major) tensor of shape s.
ContiguousStride(s) == SubSeq([i \in 1..Len(s) |-> Prod(s, i + 1)], 1, Len(s))

\* The index of the element at offset o of a contiguous tensor of shape s.
Unravel(o, s) ==
    SubSeq([i \in 1..Len(s) |-> (o \div Prod(s, i + 1)) % s[i]], 1, Len(s))

Offset(T, idx) == Sum([i \in 0..(Len(idx) - 1) |-> idx[i + 1] * T.stride[i + 1]],
                      Len(idx))

Get(T, idx) == T.data[Offset(T, idx) + 1]

BadTensor == [shape |-> BadShape, stride |-> <<>>, data |-> <<>>]

\* The indices of tensors: sequences of naturals.
Index == Seq(Nat)

\* A contiguous tensor of shape s whose element at index idx is f[idx].
MkTensor(s, f) ==
    [shape |-> s, stride |-> ContiguousStride(s),
     data |-> SubSeq([o \in 1..Numel(s) |-> f[Unravel(o - 1, s)]], 1, Numel(s))]

IsContiguous(T) == T.stride = ContiguousStride(T.shape)

\* tensor.contiguous()
Contiguous(T) ==
    IF IsBad(T.shape) THEN BadTensor
    ELSE MkTensor(T.shape, [idx \in Index |-> Get(T, idx)])

\* tensor.view(s): the same storage read with the strides of s.
View(T, s) ==
    IF IsBad(T.shape) THEN BadTensor
    ELSE IF ~IsContiguous(T) \/ Numel(s) # Numel(T.shape) THEN BadTensor
    ELSE [shape |-> s, stride |-> ContiguousStride(s), data |-> T.data]

\* Swap entries i and j (counted from 0) of a sequence.
SwapSeq(s, i, j) ==
    SubSeq([n \in 1..Len(s) |->
              IF n = i + 1 THEN s[j + 1]
              ELSE IF n = j + 1 THEN s[i + 1] ELSE s[n]], 1, Len(s))

\* tensor.transpose(i, j): the same storage, two dimensions swapped.
Transpose(T, i, j) ==
    IF IsBad(T.shape) \/ Len(T.shape) <= Max(i, j) THEN BadTensor
    ELSE [shape |-> SwapSeq(T.shape, i, j), stride |-> SwapSeq(T.stride, i, j),
          data |-> T.data]

\* A sequence with its last entry replaced.
WithLast(s, v) == Append(SubSeq(s, 1, Len(s) - 1), v)

\* nn.Linear: y[.., o] = sum over i of x[.., i] * weight[o][i] + bias[o]
Linear(T, weight, bias, in_features, out_features) ==
    IF IsBad(LinearShape(T.shape, in_features, out_features)) THEN BadTensor
    ELSE LET elem == [idx \in Index |->
                 Sum([i \in 0..(in_features - 1) |->
                        Get(T, WithLast(idx, i)) * weight[idx[Len(idx)]][i]],
                     in_features) + bias[idx[Len(idx)]]]
         IN MkTensor(WithLast(T.shape, out_features), elem)

\* torch.matmul of two 4-D tensors: batched over the two leading dimensions.
MatmulShape(s1, s2) ==
    IF IsBad(s1) \/ IsBad(s2) \/ Len(s1) # 4 \/ Len(s2) # 4 THEN BadShape
    ELSE IF s1[1] # s2[1] \/ s1[2] # s2[2] \/ s1[4] # s2[3] THEN BadShape
    ELSE <<s1[1], s1[2], s1[3], s2[4]>>

Matmul(A, B) ==
    IF IsBad(MatmulShape(A.shape, B.shape)) THEN BadTensor
    ELSE LET n == A.shape[4]
             elem == [idx \in Index |->
                 Sum([j \in 0..(n - 1) |->
                        Get(A, <<idx[1], idx[2], idx[3], j>>)
                        * Get(B, <<idx[1], idx[2], j, idx[4]>>)], n)]
         IN MkTensor(MatmulShape(A.shape, B.shape), elem)

\* exp(scale * s) for an integer s, scale = head_dim ** -0.5 > 0: the power s
\* of the base e ** scale > 1.  The base is carried as 2, and a row is
\* divided through by its smallest term, which leaves the softmax unchanged.
RECURSIVE Pow2(_)
Pow2(n) == IF n <= 0 THEN 1 ELSE 2 * Pow2(n - 1)

\* The smallest of f[0], ..., f[n - 1].
RECURSIVE MinOf(_, _)
MinOf(f, n) == IF n = 1 THEN f[0] ELSE Min(f[n - 1], MinOf(f, n - 1))

\* softmax over dim = -2, the query axis.
SoftmaxDimQueries(rank) == rank - 1

\* The axis softmax normalises over: dim = -1 is the last one.
SoftmaxDim(rank) == rank

\* torch.softmax(scores, dim=-1) of a 4-D tensor of integers: each element is
\* the fraction exp(element) / sum of exp over the axis.
Softmax(T) ==
    IF IsBad(T.shape) THEN BadTensor
    ELSE LET ax == SoftmaxDim(Len(T.shape))
             n == T.shape[ax]
             along(idx, j) == [i \in 1..Len(idx) |-> IF i = ax THEN j ELSE idx[i]]
             row(idx) == [j \in 0..(n - 1) |-> Get(T, along(idx, j))]
             e(idx, j) == Pow2(row(idx)[j] - MinOf(row(idx), n))
             elem == [idx \in Index |->
                 [num |-> e(idx, idx[ax]),
                  den |-> Sum([j \in 0..(n - 1) |-> e(idx, j)], n)]]
         IN MkTensor(T.shape, elem)

\* A product that weighs the values of every head with the weights of head 0.
MatmulWeightsFirstHead(W, V) ==
    IF IsBad(MatmulShape(W.shape, V.shape)) THEN BadTensor
    ELSE LET n == W.shape[4]
             elem == [idx \in Index |->
                 [num |-> Sum([j \in 0..(n - 1) |->
                                 Get(W, <<idx[1], 0, idx[3], j>>).num
                                 * Get(V, <<idx[1], idx[2], j, idx[4]>>)], n),
                  den |-> Get(W, <<idx[1], 0, idx[3], 0>>).den]]
         IN MkTensor(MatmulShape(W.shape, V.shape), elem)

\* torch.matmul(attn_weights, V): the weights are fractions with one
\* denominator per row, so each element of the product is a fraction too.
MatmulWeights(W, V) ==
    IF IsBad(MatmulShape(W.shape, V.shape)) THEN BadTensor
    ELSE LET n == W.shape[4]
             elem == [idx \in Index |->
                 [num |-> Sum([j \in 0..(n - 1) |->
                                 Get(W, <<idx[1], idx[2], idx[3], j>>).num
                                 * Get(V, <<idx[1], idx[2], j, idx[4]>>)], n),
                  den |-> Get(W, <<idx[1], idx[2], idx[3], 0>>).den]]
         IN MkTensor(MatmulShape(W.shape, V.shape), elem)

RECURSIVE Gcd(_, _)
Gcd(a, b) == IF b = 0 THEN a ELSE Gcd(b, a % b)

Abs(a) == IF a < 0 THEN -a ELSE a

\* A fraction in lowest terms, its denominator positive.
Reduce(q) ==
    LET g == Gcd(Abs(q.num), q.den)
    IN IF q.num = 0 THEN [num |-> 0, den |-> 1]
       ELSE [num |-> q.num \div g, den |-> q.den \div g]

\* nn.Linear on a tensor of fractions: the element is the sum of the terms
\* x[.., i] * weight[o][i] plus bias[o]; the terms are kept, each reduced.
LinearOfFractions(T, weight, bias, in_features, out_features) ==
    IF IsBad(LinearShape(T.shape, in_features, out_features)) THEN BadTensor
    ELSE LET o(idx) == idx[Len(idx)]
             term(idx, i) ==
                 Reduce([num |-> Get(T, WithLast(idx, i)).num * weight[o(idx)][i],
                         den |-> Get(T, WithLast(idx, i)).den])
             elem == [idx \in Index |->
                 [terms |-> SubSeq([i \in 1..in_features |-> term(idx, i - 1)],
                                   1, in_features),
                  bias |-> bias[o(idx)]]]
         IN MkTensor(WithLast(T.shape, out_features), elem)

\* ------------------------------------------ Lesson 4: MultiHeadAttention
\* The parameters nn.Linear(in_features, out_features) is initialised with:
\* a draw (seed) from a small family of integer matrices and biases; salt
\* tells the four layers of one module apart.
LinearParams(salt, seed, in_features, out_features) ==
    [weight |-> [o \in 0..(out_features - 1) |->
                   [i \in 0..(in_features - 1) |->
                      IF i = (o + salt + seed) % in_features THEN 1 ELSE 0]],
     bias |-> [o \in 0..(out_features - 1) |-> (o + salt + seed) % 2]]

NoParams == <<>>

\* MultiHeadAttention.__init__ without its assertion: head_dim is rounded down.
MultiHeadAttention4InitNoAssert(embed_dim, num_heads, seed) ==
    [status |-> "ok", embed_dim |-> embed_dim, num_heads |-> num_heads,
     head_dim |-> embed_dim \div num_heads,
     params |-> [query |-> LinearParams(0, seed, embed_dim, embed_dim),
                 key |-> LinearParams(1, seed, embed_dim, embed_dim),
                 value |-> LinearParams(2, seed, embed_dim, embed_dim),
                 out |-> LinearParams(3, seed, embed_dim, embed_dim)]]

\* MultiHeadAttention.__init__ of Lesson 4.
MultiHeadAttention4Init(embed_dim, num_heads, seed) ==
    LET head_dim == embed_dim \div num_heads
    IN IF embed_dim % num_heads # 0
       THEN [status |-> "error", embed_dim |-> embed_dim, num_heads |-> num_heads,
             head_dim |-> head_dim, params |-> NoParams]
       ELSE [status |-> "ok", embed_dim |-> embed_dim, num_heads |-> num_heads,
             head_dim |-> head_dim,
             params |-> [query |-> LinearParams(0, seed, embed_dim, embed_dim),
                         key |-> LinearParams(1, seed, embed_dim, embed_dim),
                         value |-> LinearParams(2, seed, embed_dim, embed_dim),
                         out |-> LinearParams(3, seed, embed_dim, embed_dim)]]

\* A split into heads that views the projection as (batch_size, num_heads,
\* seq_length, head_dim) directly, without the transpose.
SplitHeadsNoTranspose(T, batch_size, seq_length, num_heads, head_dim) ==
    View(T, <<batch_size, num_heads, seq_length, head_dim>>)

\* Step 2 of forward: .view(batch_size, seq_length, num_heads, head_dim)
\*                    .transpose(1, 2)
SplitHeads(T, batch_size, seq_length, num_heads, head_dim) ==
    Transpose(View(T, <<batch_size, seq_length, num_heads, head_dim>>), 1, 2)

\* A merge that views the heads' output as (batch_size, seq_length,
\* embed_dim) directly, without the transpose.
MergeHeadsNoTranspose(T, batch_size, seq_length, embed_dim) ==
    View(Contiguous(T), <<batch_size, seq_length, embed_dim>>)

\* Step 6 of forward: .transpose(1, 2).contiguous()
\*                    .view(batch_size, seq_length, embed_dim)
MergeHeads(T, batch_size, seq_length, embed_dim) ==
    View(Contiguous(Transpose(T, 1, 2)), <<batch_size, seq_length, embed_dim>>)

\* Attention weights with a positional bias in the scores: 1 is added where
\* the key is at or before the query.
AttentionWeightsPositionBias(Q, K) ==
    LET scores == Matmul(Q, Transpose(K, 2, 3))
    IN IF IsBad(scores.shape) THEN BadTensor
       ELSE Softmax(MkTensor(scores.shape,
                [idx \in Index |->
                    Get(scores, idx) + IF idx[4] <= idx[3] THEN 1 ELSE 0]))

\* Steps 3 and 4: the attention weights of the heads.
AttentionWeights(Q, K) == Softmax(Matmul(Q, Transpose(K, 2, 3)))

\* MultiHeadAttention.forward of Lesson 4: [out, attn_weights]
MultiHeadAttention4Forward(m, X) ==
    IF IsBad(X.shape) \/ Len(X.shape) # 3
    THEN [out |-> BadTensor, attn_weights |-> BadTensor]
    ELSE
    LET batch_size == X.shape[1]
        seq_length == X.shape[2]
        embed_dim == X.shape[3]
        P == m.params
        E == m.embed_dim
        Q == SplitHeads(Linear(X, P.query.weight, P.query.bias, E, E),
                        batch_size, seq_length, m.num_heads, m.head_dim)
        K == SplitHeads(Linear(X, P.key.weight, P.key.bias, E, E),
                        batch_size, seq_length, m.num_heads, m.head_dim)
        V == SplitHeads(Linear(X, P.value.weight, P.value.bias, E, E),
                        batch_size, seq_length, m.num_heads, m.head_dim)
        attn_weights == AttentionWeights(Q, K)
        heads == MatmulWeights(attn_weights, V)
        merged == MergeHeads(heads, batch_size, seq_length, embed_dim)
        out == LinearOfFractions(merged, P.out.weight, P.out.bias, E, E)
    IN IF IsBad(out.shape)
       THEN [out |-> BadTensor, attn_weights |-> BadTensor]
       ELSE [out |-> out, attn_weights |-> attn_weights]

\* -------------------------------------------- Lesson 4: TransformerBlock
\* TransformerBlock.__init__ of Lesson 4: it fails when its attention does.
TransformerBlock4Init(embed_dim, num_heads, ff_hidden_dim, seed) ==
    LET a == MultiHeadAttention4Init(embed_dim, num_heads, seed)
    IN [class |-> "TransformerBlock", status |-> a.status,
        embed_dim |-> embed_dim, ff_hidden_dim |-> ff_hidden_dim, attention |-> a,
        training |-> TRUE, sublayers |-> "modules"]

\* TransformerBlock.forward of Lesson 4: the shape of the hidden state it
\* returns, and the attention weights it returns.
TransformerBlock4Forward(tb, X) ==
    LET a == MultiHeadAttention4Forward(tb.attention, X)
        x1 == LayerNormShape(BroadcastShapes(X.shape, a.out.shape), tb.embed_dim)
        ff_output == FfnShape(x1, tb.embed_dim, tb.ff_hidden_dim)
        x2 == LayerNormShape(BroadcastShapes(x1, ff_output), tb.embed_dim)
    IN IF IsBad(x2)
       THEN [out |-> BadTensor, attn_weights |-> BadTensor]
       ELSE [out |-> [shape |-> x2, stride |-> <<>>, data |-> <<>>],
             attn_weights |-> a.attn_weights]

\* forward with "ff_output = self.ffn(x)" reading the argument of forward,
\* not the normalized x.
TransformerBlock4TermFfnOnInput(xin, training, drawn) ==
    LET attn_output == Node("attention", <<xin>>, 0)
        x1 == Node("norm1",
                   <<Node("add", <<xin, Dropout(attn_output, training, drawn + 1)>>,
                          0)>>, 0)
        ff_output == Node("ffn", <<xin>>, 0)
        x2 == Node("norm2",
                   <<Node("add", <<x1, Dropout(ff_output, training, drawn + 2)>>,
                          0)>>, 0)
    IN [out |-> x2, attn_weights |-> attn_output]

\* forward without its second residual: x = self.norm2(self.dropout(ff_output)).
TransformerBlock4TermNoResidual(xin, training, drawn) ==
    LET attn_output == Node("attention", <<xin>>, 0)
        x1 == Node("norm1",
                   <<Node("add", <<xin, Dropout(attn_output, training, drawn + 1)>>,
                          0)>>, 0)
        ff_output == Node("ffn", <<x1>>, 0)
        x2 == Node("norm2", <<Dropout(ff_output, training, drawn + 2)>>, 0)
    IN [out |-> x2, attn_weights |-> attn_output]

\* TransformerBlock.forward of Lesson 4 as a term over its argument xin, the
\* generator having made `drawn` draws before the call: [out, attn_weights].
TransformerBlock4Term(xin, training, drawn) ==
    LET attn_output == Node("attention", <<xin>>, 0)
        x1 == Node("norm1",
                   <<Node("add", <<xin, Dropout(attn_output, training, drawn + 1)>>,
                          0)>>, 0)
        ff_output == Node("ffn", <<x1>>, 0)
        x2 == Node("norm2",
                   <<Node("add", <<x1, Dropout(ff_output, training, drawn + 2)>>,
                          0)>>, 0)
    IN [out |-> x2, attn_weights |-> attn_output]

\* The value of a term of forward at one element v of its argument, when
\* self.attention, self.ffn, self.norm1 and self.norm2 have been replaced by
\* identity functions: only the additions compute.
RECURSIVE EvalIdentity(_, _)
EvalIdentity(t, v) ==
    CASE t.op = "x" -> v
      [] t.op = "add" -> EvalIdentity(t.args[1], v) + EvalIdentity(t.args[2], v)
      [] OTHER -> EvalIdentity(t.args[1], v)

\* TransformerBlock.forward of Lesson 4 with its four sublayers replaced by
\* identity functions (the attention returning no weights).  In training
\* mode the dropout masks decide the values, which are left out.
TransformerBlock4Replaced(tb, X, drawn) ==
    LET term == TransformerBlock4Term(Leaf, tb.training, drawn).out
    IN [out |-> IF tb.training
                THEN [shape |-> X.shape, stride |-> <<>>, data |-> <<>>]
                ELSE MkTensor(X.shape,
                              [idx \in Index |-> EvalIdentity(term, Get(X, idx))]),
        attn_weights |-> BadTensor]

\* What calling the module obj returns on X: [out, attn_weights].
Forward4(obj, X, drawn) ==
    IF obj.class = "MultiHeadAttention"
    THEN MultiHeadAttention4Forward(obj.attention, X)
    ELSE IF obj.sublayers = "identity"
    THEN TransformerBlock4Replaced(obj, X, drawn)
    ELSE TransformerBlock4Forward(obj, X)

\* The terms of the blocks a call of obj runs.
Expr4(obj, drawn) ==
    IF obj.class = "TransformerBlock"
    THEN <<TransformerBlock4Term(Leaf, obj.training, drawn)>>
    ELSE <<>>

\* The draws of the generator a call of obj makes.
Draws4(obj) ==
    IF obj.class = "TransformerBlock" THEN BlockDraws(obj.training) ELSE 0

\* X[:, perm, :]: the positions of every sequence of X reordered, position t
\* of the result being position perm[t] of X.
PermuteRows(X, perm) ==
    MkTensor(X.shape,
             [idx \in Index |-> Get(X, <<idx[1], perm[idx[2] + 1], idx[3]>>)])

\* Orders of S positions: the identity, every swap of two positions, and
\* the rotation by one.
Perms(S) ==
    {[t \in 1..S |-> t - 1]}
    \cup {[t \in 1..S |-> t % S]}
    \cup {[t \in 1..S |-> IF t = i THEN j - 1 ELSE IF t = j THEN i - 1 ELSE t - 1] :
             i \in 1..S, j \in 1..S}

\* The simulated embeddings X of shape (B, S, E): 0s and 1s, pattern p.
XValue(p, idx) ==
    ((idx[2] * idx[2] + p) * (idx[3] + 1) + idx[1] * (idx[2] + idx[3])
     + (idx[2] * idx[3]) \div 2) % 2

InputTensor(B, S, E, p) ==
    MkTensor(<<B, S, E>>, [idx \in Index |-> XValue(p, idx)])

\* A batch of B sequences of which element to is element from of X and the
\* others are filled with pattern p.
BatchAround(X, from, B, to, p) ==
    MkTensor(<<B, X.shape[2], X.shape[3]>>,
             [idx \in Index |->
                 IF idx[1] = to THEN Get(X, <<from, idx[2], idx[3]>>)
                 ELSE XValue(p, idx)])

NoModule ==
    [class |-> "none", status |-> "none", embed_dim |-> 0, ff_hidden_dim |-> 0,
     attention |-> <<>>, training |-> TRUE, sublayers |-> "modules"]

NoResult ==
    [status |-> "none", input |-> BadTensor, out |-> BadTensor,
     attn_weights |-> BadTensor]

\* What a call of Lesson 4 leaves: the input, and what forward returned.
Result4(X, r) ==
    [status |-> IF IsBad(r.out.shape) THEN "raised" ELSE "returned",
     input |-> X, out |-> r.out, attn_weights |-> r.attn_weights]

\* ------------------------------------ Lesson 5: mock data, training loop
\* torch.randint(0, vocab_size, (batch_size, seq_length)): one of the
\* tensors it can return, numbered by r.
RandInt(B, S, vocab_size, r) ==
    [shape |-> <<B, S>>,
     ids |-> [b \in 0..(B - 1) |->
                [t \in 0..(S - 1) |-> (b + t + r) % vocab_size]]]

\* targets = torch.randint(0, vocab_size, (batch_size, seq_length)): a draw
\* of its own, whatever inputs is.
MockTargets(inputs, vocab_size, r) ==
    RandInt(inputs.shape[1], inputs.shape[2], vocab_size, r)

\* The shapes in which a data_loader may hand out the targets of a batch.
TargetKinds == {"same", "transposed", "longer"}

\* The targets of a batch, in the shape of kind: as they are, transposed to
\* (seq_length, batch), or one position longer.
BatchTargets(tg, kind) ==
    LET B == tg.shape[1]
        S == tg.shape[2]
    IN CASE kind = "same" -> tg
         [] kind = "transposed" ->
              [shape |-> <<S, B>>,
               ids |-> [t \in 0..(S - 1) |-> [b \in 0..(B - 1) |-> tg.ids[b][t]]]]
         [] OTHER ->
              [shape |-> <<B, S + 1>>,
               ids |-> [b \in 0..(B - 1) |->
                          [t \in 0..S |-> IF t < S THEN tg.ids[b][t] ELSE 0]]]

\* t.view(-1, cols) of a contiguous tensor of shape s.
ViewRowsShape(s, cols) ==
    IF IsBad(s) \/ Numel(s) % cols # 0 THEN BadShape
    ELSE <<Numel(s) \div cols, cols>>

\* t.view(-1) of a contiguous tensor of shape s.
ViewFlatShape(s) == IF IsBad(s) THEN BadShape ELSE <<Numel(s)>>

\* nn.CrossEntropyLoss()(input, target) on an (N, C) input and a target of
\* class indices: it raises unless the target has shape (N,).
CrossEntropyLoss(input, target) ==
    IF IsBad(input) \/ IsBad(target) THEN "raised"
    ELSE IF target # <<input[1]>> THEN "raised"
    ELSE "loss"

\* criterion(logits.view(-1, vocab_size), targets.view(-1))
Criterion(logits, targets, vocab_size) ==
    CrossEntropyLoss(ViewRowsShape(logits, vocab_size), ViewFlatShape(targets))

\* self.pe = nn.Parameter(pe): the table as a trainable parameter.
PeRegisteredAsParameter == "parameter"

\* self.register_buffer('pe', pe): the table is a buffer of the module.
PeRegisteredAs == "buffer"

\* model.parameters(), as handed to torch.optim.Adam: the parameter tensors
\* of every submodule, and the tables registered as parameters; buffers are
\* not among them.
Parameters(m) ==
    [tensors |-> {m.params.embedding, m.params.output_layer}
                 \cup UNION {{m.params.blocks[i][k] : k \in 1..Len(m.params.blocks[i])} :
                              i \in 1..Len(m.params.blocks)},
     tables |-> IF PeRegisteredAs = "parameter" THEN {"pe"} ELSE {}]

\* A table after an update of all its entries by the optimizer.
UpdatedTable(pe) ==
    [p \in DOMAIN pe |-> [c \in DOMAIN pe[p] |-> [pe[p][c] EXCEPT !.fn = "updated"]]]

\* An optimizer.zero_grad() that leaves the gradients as they are.
ZeroGradKeep(grad) == grad

\* optimizer.zero_grad(): the gradients of all parameters are reset.
ZeroGrad(grad) == <<>>

\* loss.backward(): the gradient of this iteration's loss is added to what
\* the parameters' .grad hold.
Backward(grad, iter) == Append(grad, iter)

\* The cell of Lesson 2 has not run.
NoCell ==
    [stage |-> "none", text |-> <<>>, tokens |-> <<>>, vocab |-> <<>>,
     embedding |-> <<>>, token_ids |-> <<>>, embedded |-> <<>>,
     error |-> "none"]

\* The locals of a MultiHeadAttention.forward that has not run.
NoFwd == [stage |-> "none"]

\* No earlier call is being compared with.
NoPrev == [kind |-> "none", res |-> <<>>, expr |-> <<>>, perm |-> <<>>]

\* No mock data yet.
NoData == [vocab_size |-> 0, inputs |-> NoInput, targets |-> NoInput]

\* The training loop has not run.
NoTrain ==
    [iter |-> 0, targets |-> NoInput, grad |-> <<>>, version |-> 0,
     read |-> <<>>, applied |-> <<>>, moments |-> <<>>,
     loss |-> [iter |-> 0, inputs |-> <<>>, targets |-> <<>>],
     log |-> <<>>]

\* ------------------------------------------------------------------ state
Init ==
    /\ kernel = "none"
    /\ lm = NoModel
    /\ pc = "idle"
    /\ inp = NoInput
    /\ x = NoTensor
    /\ blk = 0
    /\ err = "none"
    /\ attn = <<>>
    /\ steps = <<>>
    /\ obj4 = NoModule
    /\ res4 = NoResult
    /\ rng = 0
    /\ expr = <<>>
    /\ deps = <<>>
    /\ prev = NoPrev
    /\ data = NoData
    /\ tpc = "none"
    /\ train = NoTrain
    /\ fwd = NoFwd
    /\ cell2 = NoCell

\* A step of LanguageModel.forward, as recorded in steps.
Step(op, idx, in_via, out_via) ==
    [op |-> op, idx |-> idx, in_via |-> in_via, out_via |-> out_via]

\* model = LanguageModel(vocab_size, embed_dim, num_heads, num_layers,
\*                       ff_hidden_dim, max_seq_length)
ConstructLanguageModel ==
    /\ kernel = "none"
    /\ \E vocab_size \in 1..MaxVocab, embed_dim \in 1..MaxEmbed,
          num_heads \in 1..MaxHeads, num_layers \in 0..MaxLayers,
          ff_hidden_dim \in 1..MaxFF, max_seq_length \in 1..MaxSeqLen :
          lm' = LanguageModelInit(vocab_size, embed_dim, num_heads, num_layers,
                                  ff_hidden_dim, max_seq_length)
    /\ kernel' = "Lesson5"
    /\ UNCHANGED <<pc, inp, x, blk, err, attn, steps, obj4, res4>>
    /\ UNCHANGED <<rng, expr, deps, prev, data, tpc, train>>
    /\ UNCHANGED <<fwd, cell2>>

\* logits = model(inputs): the call is entered with a (B, S) batch of IDs.
\* A first call starts with the generator as it is initially: one starting
\* after earlier draws makes the same draws under later numbers
\* (LanguageModelCallAgain is the call that follows another).
LanguageModelCall ==
    /\ kernel = "Lesson5"
    /\ lm.status = "ok"
    /\ pc = "idle"
    /\ tpc = "none"
    /\ rng = 0
    /\ \E B \in 1..MaxBatch, S \in 1..MaxSeq :
       \E b0 \in 0..(B - 1), t0 \in 0..(S - 1), w \in (-1)..lm.vocab_size :
          inp' = [shape |-> <<B, S>>,
                  ids |-> TokenIds(B, S, lm.vocab_size, b0, t0, w)]
    /\ pc' = "embedding"
    /\ x' = NoTensor
    /\ blk' = 0
    /\ err' = "none"
    /\ attn' = <<>>
    /\ steps' = <<>>
    /\ expr' = <<>>
    /\ deps' = <<>>
    /\ UNCHANGED <<kernel, lm, obj4, res4, rng, prev, data, tpc, train>>
    /\ UNCHANGED <<fwd, cell2>>

\* x = self.embedding(x)
EmbeddingStep ==
    /\ pc = "embedding"
    /\ IF EmbeddingOK(inp, lm.vocab_size)
       THEN /\ x' = Embedding(inp, lm.embed_dim)
            /\ pc' = "positional_encoding"
            /\ err' = err
            /\ steps' = Append(steps, Step("embedding", 0, <<>>, <<>>))
            /\ deps' = EmbeddingDeps(inp.shape[1], inp.shape[2])
            /\ train' = [train EXCEPT !.version = EmbeddingWeightAfter(@)]
       ELSE /\ pc' = "raised"
            /\ err' = "IndexError"
            /\ train' = [train EXCEPT !.version = EmbeddingWeightAfter(@)]
            /\ UNCHANGED <<x, steps, deps>>
    /\ UNCHANGED <<kernel, lm, inp, blk, attn, obj4, res4>>
    /\ UNCHANGED <<rng, expr, prev, data, tpc>>
    /\ UNCHANGED <<fwd, cell2>>

\* x = self.positional_encoding(x)
PositionalEncodingStep ==
    /\ pc = "positional_encoding"
    /\ LET y == PositionalEncodingForward(x, lm.pe, lm.embed_dim,
                                          lm.max_seq_length)
       IN IF IsBad(y.shape)
          THEN /\ pc' = "raised"
               /\ err' = "RuntimeError"
               /\ UNCHANGED <<x, blk, steps>>
          ELSE /\ x' = y
               /\ pc' = "transformer_blocks"
               /\ blk' = 1
               /\ err' = err
               /\ steps' = Append(steps,
                               Step("positional_encoding", 0, x.via, y.via))
    /\ UNCHANGED <<kernel, lm, inp, attn, obj4, res4>>
    /\ UNCHANGED <<rng, expr, deps, prev, data, tpc, train>>
    /\ UNCHANGED <<fwd, cell2>>

\* for block in self.transformer_blocks: x, _ = block(x)   (one iteration)
TransformerBlockStep ==
    /\ pc = "transformer_blocks"
    /\ blk <= lm.num_layers
    /\ LET i == BlockOrder(blk, lm.num_layers)
           arg == x
           r == TransformerBlock5Forward(arg.shape, lm.embed_dim, lm.num_heads,
                                         lm.ff_hidden_dim)
           out == [arg EXCEPT !.shape = r.shape,
                              !.via = Append(@, [layer |-> "block", idx |-> i])]
       IN IF IsBad(r.shape)
          THEN /\ pc' = "raised"
               /\ err' = "RuntimeError"
               /\ UNCHANGED <<x, blk, attn, steps, expr, deps, rng>>
          ELSE /\ x' = BlockRebind(x, out)
               /\ attn' = r.weights
               /\ blk' = blk + 1
               /\ steps' = Append(steps, Step("block", i, arg.via, out.via))
               /\ expr' = Append(expr,
                              TransformerBlock5Term(Leaf, lm.training, rng))
               /\ deps' = AttentionDeps(deps)
               /\ rng' = rng + BlockDraws(lm.training)
               /\ UNCHANGED <<pc, err>>
    /\ UNCHANGED <<kernel, lm, inp, obj4, res4, prev, data, tpc, train>>
    /\ UNCHANGED <<fwd, cell2>>

\* logits = self.output_layer(x); return logits
OutputLayerStep ==
    /\ pc = "transformer_blocks"
    /\ blk > lm.num_layers
    /\ LET s == OutputLayerShape(x.shape, lm.embed_dim, lm.vocab_size)
           logits == [x EXCEPT !.shape = s,
                        !.via = Append(@, [layer |-> "output_layer", idx |-> 0])]
       IN IF IsBad(s)
          THEN /\ pc' = "raised"
               /\ err' = "RuntimeError"
               /\ UNCHANGED <<x, steps>>
          ELSE /\ x' = logits
               /\ pc' = "returned"
               /\ err' = err
               /\ steps' = Append(steps,
                               Step("output_layer", 0, x.via, logits.via))
    /\ UNCHANGED <<kernel, lm, inp, blk, attn, obj4, res4>>
    /\ UNCHANGED <<rng, expr, deps, prev, data, tpc, train>>
    /\ UNCHANGED <<fwd, cell2>>

\* The call is over (its result or its error is with the caller).
CallOver ==
    /\ pc \in {"returned", "raised"}
    /\ tpc = "none"
    /\ pc' = "idle"
    /\ inp' = NoInput
    /\ x' = NoTensor
    /\ blk' = 0
    /\ err' = "none"
    /\ attn' = <<>>
    /\ steps' = <<>>
    /\ expr' = <<>>
    /\ deps' = <<>>
    /\ prev' = NoPrev
    /\ UNCHANGED <<kernel, lm, obj4, res4, rng, data, tpc, train>>
    /\ UNCHANGED <<fwd, cell2>>

\* mha = MultiHeadAttention(embed_dim, num_heads)            (Lesson 4)
ConstructMultiHeadAttention4 ==
    /\ kernel = "none"
    /\ \E embed_dim \in 1..MaxEmbed, num_heads \in 1..MaxHeads,
          seed \in 0..(NumSeeds - 1) :
          LET a == MultiHeadAttention4Init(embed_dim, num_heads, seed)
          IN obj4' = [class |-> "MultiHeadAttention", status |-> a.status,
                      embed_dim |-> embed_dim, ff_hidden_dim |-> 0,
                      attention |-> a, training |-> TRUE,
                      sublayers |-> "modules"]
    /\ kernel' = "Lesson4"
    /\ UNCHANGED <<lm, pc, inp, x, blk, err, attn, steps, res4>>
    /\ UNCHANGED <<rng, expr, deps, prev, data, tpc, train>>
    /\ UNCHANGED <<fwd, cell2>>

\* transformer_block = TransformerBlock(embed_dim, num_heads, ff_hidden_dim)
ConstructTransformerBlock4 ==
    /\ kernel = "none"
    /\ \E embed_dim \in 1..MaxEmbed, num_heads \in 1..MaxHeads,
          ff_hidden_dim \in 1..MaxFF, seed \in 0..(NumSeeds - 1) :
          obj4' = TransformerBlock4Init(embed_dim, num_heads, ff_hidden_dim, seed)
    /\ kernel' = "Lesson4"
    /\ UNCHANGED <<lm, pc, inp, x, blk, err, attn, steps, res4>>
    /\ UNCHANGED <<rng, expr, deps, prev, data, tpc, train>>
    /\ UNCHANGED <<fwd, cell2>>

\* output, attn_weights = mha(X)
MultiHeadAttention4Call ==
    /\ kernel = "Lesson4"
    /\ obj4.class = "MultiHeadAttention"
    /\ obj4.status = "ok"
    /\ res4.status = "none"
    /\ \E B \in 1..MaxBatch, S \in 1..MaxSeq, E \in 1..MaxEmbed,
          p \in 0..(NumPatterns - 1) :
          LET X == InputTensor(B, S, E, p)
          IN res4' = Result4(X, Forward4(obj4, X, rng))
    /\ expr' = Expr4(obj4, rng)
    /\ rng' = rng + Draws4(obj4)
    /\ UNCHANGED <<kernel, lm, pc, inp, x, blk, err, attn, steps, obj4>>
    /\ UNCHANGED <<deps, prev, data, tpc, train>>
    /\ UNCHANGED <<fwd, cell2>>

\* output, attn_weights = transformer_block(X), the generator being as it is
\* initially (CallAgain4 is the call that follows another).
TransformerBlock4Call ==
    /\ kernel = "Lesson4"
    /\ obj4.class = "TransformerBlock"
    /\ obj4.status = "ok"
    /\ res4.status = "none"
    /\ rng = 0
    /\ \E B \in 1..MaxBatch, S \in 1..MaxSeq, E \in 1..MaxEmbed,
          p \in 0..(NumPatterns - 1) :
          LET X == InputTensor(B, S, E, p)
          IN res4' = Result4(X, Forward4(obj4, X, rng))
    /\ expr' = Expr4(obj4, rng)
    /\ rng' = rng + Draws4(obj4)
    /\ UNCHANGED <<kernel, lm, pc, inp, x, blk, err, attn, steps, obj4>>
    /\ UNCHANGED <<deps, prev, data, tpc, train>>
    /\ UNCHANGED <<fwd, cell2>>

\* The Lesson 4 call is over (its result or its error is with the caller).
CallOver4 ==
    /\ res4.status # "none"
    /\ res4' = NoResult
    /\ expr' = <<>>
    /\ prev' = NoPrev
    /\ UNCHANGED <<kernel, lm, pc, inp, x, blk, err, attn, steps, obj4>>
    /\ UNCHANGED <<rng, deps, data, tpc, train>>
    /\ UNCHANGED <<fwd, cell2>>

\* transformer_block.eval(): nn.Module.eval sets self.training = False.
TransformerBlock4Eval ==
    /\ kernel = "Lesson4"
    /\ obj4.class = "TransformerBlock"
    /\ obj4.status = "ok"
    /\ obj4.training
    /\ res4.status = "none"
    /\ obj4' = [obj4 EXCEPT !.training = FALSE]
    /\ UNCHANGED <<kernel, lm, pc, inp, x, blk, err, attn, steps, res4>>
    /\ UNCHANGED <<rng, expr, deps, prev, data, tpc, train>>
    /\ UNCHANGED <<fwd, cell2>>

\* model.eval()
LanguageModelEval ==
    /\ kernel = "Lesson5"
    /\ lm.status = "ok"
    /\ lm.training
    /\ pc = "idle"
    /\ tpc = "none"
    /\ lm' = [lm EXCEPT !.training = FALSE]
    /\ UNCHANGED <<kernel, pc, inp, x, blk, err, attn, steps, obj4, res4>>
    /\ UNCHANGED <<rng, expr, deps, prev, data, tpc, train>>
    /\ UNCHANGED <<fwd, cell2>>

\* self.attention, self.ffn, self.norm1 and self.norm2 of transformer_block
\* are replaced by identity functions.
ReplaceSublayers4 ==
    /\ kernel = "Lesson4"
    /\ obj4.class = "TransformerBlock"
    /\ obj4.status = "ok"
    /\ obj4.sublayers = "modules"
    /\ res4.status = "none"
    /\ obj4' = [obj4 EXCEPT !.sublayers = "identity"]
    /\ UNCHANGED <<kernel, lm, pc, inp, x, blk, err, attn, steps, res4>>
    /\ UNCHANGED <<rng, expr, deps, prev, data, tpc, train>>
    /\ UNCHANGED <<fwd, cell2>>

\* The module is called a second time on the same X; what the first call
\* returned is kept for comparison.
CallAgain4 ==
    /\ kernel = "Lesson4"
    /\ res4.status = "returned"
    /\ prev.kind = "none"
    /\ rng + Draws4(obj4) <= MaxDraws
    /\ prev' = [kind |-> "repeat", res |-> res4, expr |-> expr, perm |-> <<>>]
    /\ res4' = Result4(res4.input, Forward4(obj4, res4.input, rng))
    /\ expr' = Expr4(obj4, rng)
    /\ rng' = rng + Draws4(obj4)
    /\ UNCHANGED <<kernel, lm, pc, inp, x, blk, err, attn, steps, obj4>>
    /\ UNCHANGED <<deps, data, tpc, train>>
    /\ UNCHANGED <<fwd, cell2>>

\* mha is called on X with its positions reordered; what it returned on X
\* is kept for comparison.
MultiHeadAttention4CallPermuted ==
    /\ kernel = "Lesson4"
    /\ obj4.class = "MultiHeadAttention"
    /\ res4.status = "returned"
    /\ prev.kind = "none"
    /\ \E perm \in Perms(res4.input.shape[2]) :
          LET Xp == PermuteRows(res4.input, perm)
          IN /\ prev' = [kind |-> "permuted", res |-> res4, expr |-> expr,
                         perm |-> perm]
             /\ res4' = Result4(Xp, Forward4(obj4, Xp, rng))
    /\ UNCHANGED <<kernel, lm, pc, inp, x, blk, err, attn, steps, obj4>>
    /\ UNCHANGED <<rng, expr, deps, data, tpc, train>>
    /\ UNCHANGED <<fwd, cell2>>

\* logits = model(inputs) a second time on the same inputs; what the first
\* call returned is kept for comparison.
LanguageModelCallAgain ==
    /\ kernel = "Lesson5"
    /\ pc = "returned"
    /\ tpc = "none"
    /\ prev.kind = "none"
    /\ rng + lm.num_layers * BlockDraws(lm.training) <= MaxDraws
    /\ prev' = [kind |-> "repeat", res |-> [x |-> x, attn |-> attn],
                expr |-> expr, perm |-> <<>>]
    /\ pc' = "embedding"
    /\ x' = NoTensor
    /\ blk' = 0
    /\ err' = "none"
    /\ attn' = <<>>
    /\ steps' = <<>>
    /\ expr' = <<>>
    /\ deps' = <<>>
    /\ UNCHANGED <<kernel, lm, inp, obj4, res4, rng, data, tpc, train>>
    /\ UNCHANGED <<fwd, cell2>>

Next ==
    \/ ConstructMultiHeadAttention4
    \/ ConstructTransformerBlock4
    \/ MultiHeadAttention4Call
    \/ TransformerBlock4Call
    \/ CallOver4
    \/ ConstructLanguageModel
    \/ LanguageModelCall
    \/ EmbeddingStep
    \/ PositionalEncodingStep
    \/ TransformerBlockStep
    \/ OutputLayerStep
    \/ CallOver

Spec == Init /\ [][Next]_vars

\* A LanguageModel has been constructed, with one head and ff_hidden_dim 1.
InitConstructed ==
    /\ kernel = "Lesson5"
    /\ \E vocab_size \in 1..MaxVocab, embed_dim \in 1..MaxEmbed,
          num_layers \in 0..MaxLayers, max_seq_length \in 1..MaxSeqLen :
          lm = LanguageModelInit(vocab_size, embed_dim, 1, num_layers, 1,
                                 max_seq_length)
    /\ pc = "idle"
    /\ inp = NoInput
    /\ x = NoTensor
    /\ blk = 0
    /\ err = "none"
    /\ attn = <<>>
    /\ steps = <<>>
    /\ obj4 = NoModule
    /\ res4 = NoResult
    /\ rng = 0
    /\ expr = <<>>
    /\ deps = <<>>
    /\ prev = NoPrev
    /\ data = NoData
    /\ tpc = "none"
    /\ train = NoTrain
    /\ fwd = NoFwd
    /\ cell2 = NoCell

\* A TransformerBlock of Lesson 4 has been constructed, with one head and
\* ff_hidden_dim 1.
InitConstructed4 ==
    /\ kernel = "Lesson4"
    /\ \E embed_dim \in 1..MaxEmbed, seed \in 0..(NumSeeds - 1) :
          obj4 = TransformerBlock4Init(embed_dim, 1, 1, seed)
    /\ lm = NoModel
    /\ pc = "idle"
    /\ inp = NoInput
    /\ x = NoTensor
    /\ blk = 0
    /\ err = "none"
    /\ attn = <<>>
    /\ steps = <<>>
    /\ res4 = NoResult
    /\ rng = 0
    /\ expr = <<>>
    /\ deps = <<>>
    /\ prev = NoPrev
    /\ data = NoData
    /\ tpc = "none"
    /\ train = NoTrain
    /\ fwd = NoFwd
    /\ cell2 = NoCell

\* The notebooks' modules in either mode, with sublayers replaced, and called
\* twice on one input.
InitModes == InitConstructed4 \/ InitConstructed

NextModes ==
    \/ TransformerBlock4Eval
    \/ ReplaceSublayers4
    \/ TransformerBlock4Call
    \/ CallAgain4
    \/ CallOver4
    \/ LanguageModelEval
    \/ LanguageModelCall
    \/ EmbeddingStep
    \/ PositionalEncodingStep
    \/ TransformerBlockStep
    \/ OutputLayerStep
    \/ LanguageModelCallAgain
    \/ CallOver

SpecModes == InitModes /\ [][NextModes]_vars

\* ------------------------------------------- mock data and training loop
\* inputs = torch.randint(...); targets = torch.randint(...)
MockData ==
    /\ kernel = "Lesson5"
    /\ lm.status = "ok"
    /\ data = NoData
    /\ pc = "idle"
    /\ tpc = "none"
    /\ \E B \in 1..MaxBatch, S \in 1..MaxSeq :
       \E r1 \in 0..(NumPatterns - 1), r2 \in 0..(NumPatterns - 1) :
          LET inputs == RandInt(B, S, lm.vocab_size, r1)
          IN data' = [vocab_size |-> lm.vocab_size, inputs |-> inputs,
                      targets |-> MockTargets(inputs, lm.vocab_size, r2)]
    /\ UNCHANGED <<kernel, lm, pc, inp, x, blk, err, attn, steps, obj4, res4>>
    /\ UNCHANGED <<rng, expr, deps, prev, tpc, train>>
    /\ UNCHANGED <<fwd, cell2>>

\* A statement of the training loop, as recorded in train.log.
Did(op, iter) == [op |-> op, iter |-> iter]

\* for epoch in range(num_epochs): for inputs, targets in data_loader:
\*     optimizer.zero_grad()
\* (the iterations of the two loops are counted together, up to MaxIters)
TrainZeroGrad ==
    /\ kernel = "Lesson5"
    /\ \/ tpc = "none" /\ data # NoData /\ pc = "idle"
       \/ tpc = "zero_grad"
    /\ \E kind \in TargetKinds :
          train' = [train EXCEPT
                       !.iter = @ + 1,
                       !.targets = BatchTargets(data.targets, kind),
                       !.grad = ZeroGrad(@),
                       !.log = Append(@, Did("zero_grad", train.iter + 1))]
    /\ tpc' = "forward"
    /\ UNCHANGED <<kernel, lm, pc, inp, x, blk, err, attn, steps, obj4, res4>>
    /\ UNCHANGED <<rng, expr, deps, prev, data>>
    /\ UNCHANGED <<fwd, cell2>>

\* logits = model(inputs): the call is entered.
TrainForward ==
    /\ tpc = "forward"
    /\ inp' = data.inputs
    /\ pc' = "embedding"
    /\ x' = NoTensor
    /\ blk' = 0
    /\ err' = "none"
    /\ attn' = <<>>
    /\ steps' = <<>>
    /\ expr' = <<>>
    /\ deps' = <<>>
    /\ tpc' = "loss"
    /\ train' = [train EXCEPT
                    !.log = Append(@, Did("forward", train.iter)),
                    !.read = Append(@, train.version)]
    /\ UNCHANGED <<kernel, lm, obj4, res4, rng, prev, data>>
    /\ UNCHANGED <<fwd, cell2>>

\* loss = criterion(logits.view(-1, vocab_size), targets.view(-1))
TrainLoss ==
    /\ tpc = "loss"
    /\ pc = "returned"
    /\ IF Criterion(x.shape, train.targets.shape, data.vocab_size) = "loss"
       THEN /\ tpc' = "backward"
            /\ train' = [train EXCEPT
                            !.log = Append(@, Did("loss", train.iter)),
                            !.loss = [iter |-> train.iter,
                                      inputs |-> inp.shape,
                                      targets |-> train.targets.shape]]
       ELSE /\ tpc' = "raised"
            /\ train' = train
    /\ UNCHANGED <<kernel, lm, pc, inp, x, blk, err, attn, steps, obj4, res4>>
    /\ UNCHANGED <<rng, expr, deps, prev, data>>
    /\ UNCHANGED <<fwd, cell2>>

\* model(inputs) raised: the exception leaves the loop.
TrainRaised ==
    /\ tpc = "loss"
    /\ pc = "raised"
    /\ tpc' = "raised"
    /\ pc' = "idle"
    /\ UNCHANGED <<kernel, lm, inp, x, blk, err, attn, steps, obj4, res4>>
    /\ UNCHANGED <<rng, expr, deps, prev, data, train>>
    /\ UNCHANGED <<fwd, cell2>>

\* loss.backward()
TrainBackward ==
    /\ tpc = "backward"
    /\ train' = [train EXCEPT
                    !.grad = Backward(@, train.iter),
                    !.log = Append(@, Did("backward", train.iter))]
    /\ tpc' = "step"
    /\ UNCHANGED <<kernel, lm, pc, inp, x, blk, err, attn, steps, obj4, res4>>
    /\ UNCHANGED <<rng, expr, deps, prev, data>>
    /\ UNCHANGED <<fwd, cell2>>

\* optimizer.step(): Adam updates every tensor of model.parameters() from its
\* .grad and from its running moments, into which the gradient is folded.
\* The values of the parameter tensors are carried as train.version.
TrainStep ==
    /\ tpc = "step"
    /\ train' = [train EXCEPT
                    !.version = @ + 1,
                    !.applied = Append(@, [iter |-> train.iter,
                                           grad |-> train.grad]),
                    !.moments = Append(@, train.grad),
                    !.log = Append(@, Did("step", train.iter))]
    /\ tpc' = IF train.iter < MaxIters THEN "zero_grad" ELSE "done"
    /\ lm' = IF "pe" \in Parameters(lm).tables
             THEN [lm EXCEPT !.pe = UpdatedTable(@)]
             ELSE lm
    /\ UNCHANGED <<kernel, pc, inp, x, blk, err, attn, steps, obj4, res4>>
    /\ UNCHANGED <<rng, expr, deps, prev, data>>
    /\ UNCHANGED <<fwd, cell2>>

NextTrain ==
    \/ MockData
    \/ TrainZeroGrad
    \/ TrainForward
    \/ EmbeddingStep
    \/ PositionalEncodingStep
    \/ TransformerBlockStep
    \/ OutputLayerStep
    \/ TrainLoss
    \/ TrainRaised
    \/ TrainBackward
    \/ TrainStep

SpecTrain == InitConstructed /\ [][NextTrain]_vars

\* The attention of Lesson 4 called on an input and on its reorderings.
NextPermuted ==
    \/ ConstructMultiHeadAttention4
    \/ MultiHeadAttention4Call
    \/ MultiHeadAttention4CallPermuted
    \/ CallOver4

SpecPermuted == Init /\ [][NextPermuted]_vars

\* ------------------------------ Lesson 2: simple tokenizer and embedding
\* text: any string of at most MaxText characters, each one of two letters
\* or the space.
Texts == UNION {[1..n -> {"a", "b", " "}] : n \in 0..MaxText}

\* text.split(): the maximal runs of non-whitespace characters, in order
\* (word is the run being read at character i, words the runs read so far).
RECURSIVE SplitFrom(_, _, _, _)
SplitFrom(text, i, word, words) ==
    LET closed == IF word = <<>> THEN words ELSE Append(words, word)
    IN IF i > Len(text) THEN closed
       ELSE IF text[i] = " " THEN SplitFrom(text, i + 1, <<>>, closed)
       ELSE SplitFrom(text, i + 1, Append(word, text[i]), words)

Split(text) == SplitFrom(text, 1, <<>>, <<>>)

\* enumerate(tokens): the tokens themselves in input order, repeats included.
EnumerateTokens(tokens) == {tokens}

\* enumerate(set(tokens)): the distinct tokens once each, in the iteration
\* order of the set, which the language leaves open (string hashes are
\* salted per process): every order is possible.
EnumerateSet(tokens) ==
    LET distinct == {tokens[i] : i \in 1..Len(tokens)}
        n == Cardinality(distinct)
    IN {order \in [1..n -> distinct] :
           \A i \in 1..n : \A j \in 1..n : order[i] = order[j] => i = j}

\* {token: idx for idx, token in enumerate(...)}: a later pair replaces an
\* earlier one with the same key.
DictOf(order) ==
    [token \in {order[i] : i \in 1..Len(order)} |->
        CHOOSE idx \in 0..(Len(order) - 1) :
           /\ order[idx + 1] = token
           /\ \A later \in (idx + 1)..(Len(order) - 1) : order[later + 1] # token]

\* torch.nn.Embedding(num_embeddings, embedding_dim): one randomly
\* initialised row per ID, carried by its number.
EmbeddingTable(num_embeddings, dim) ==
    [shape |-> <<num_embeddings, dim>>,
     weight |-> [r \in 0..(num_embeddings - 1) |-> [row |-> r]]]

\* torch.tensor(token_ids): the element type is inferred from the list; an
\* empty list gives a float32 tensor.
TensorOf(token_ids) ==
    [dtype |-> IF token_ids = <<>> THEN "float32" ELSE "int64",
     shape |-> <<Len(token_ids)>>, el |-> token_ids]

\* embedding(indices): indices must be integers, and every one a row.
EmbeddingLookupError(table, indices) ==
    IF indices.dtype # "int64" THEN "RuntimeError"
    ELSE IF \E i \in 1..Len(indices.el) :
               indices.el[i] < 0 \/ indices.el[i] >= table.shape[1]
    THEN "IndexError"
    ELSE "none"

EmbeddingLookup(table, indices) ==
    [shape |-> indices.shape \o <<table.shape[2]>>,
     rows |-> [i \in 1..Len(indices.el) |-> table.weight[indices.el[i]]]]

InitTokenizer ==
    /\ kernel = "Lesson2"
    /\ lm = NoModel
    /\ pc = "idle"
    /\ inp = NoInput
    /\ x = NoTensor
    /\ blk = 0
    /\ err = "none"
    /\ attn = <<>>
    /\ steps = <<>>
    /\ obj4 = NoModule
    /\ res4 = NoResult
    /\ rng = 0
    /\ expr = <<>>
    /\ deps = <<>>
    /\ prev = NoPrev
    /\ data = NoData
    /\ tpc = "none"
    /\ train = NoTrain
    /\ fwd = NoFwd
    /\ \E text \in Texts : cell2 = [NoCell EXCEPT !.stage = "text", !.text = text]

\* tokens = text.split()
TokenizeStep ==
    /\ cell2.stage = "text"
    /\ cell2' = [cell2 EXCEPT !.stage = "tokens", !.tokens = Split(cell2.text)]
    /\ UNCHANGED <<kernel, lm, pc, inp, x, blk, err, attn, steps, obj4, res4>>
    /\ UNCHANGED <<rng, expr, deps, prev, data, tpc, train, fwd>>

\* vocab = {token: idx for idx, token in enumerate(set(tokens))}
VocabStep ==
    /\ cell2.stage = "tokens"
    /\ \E order \in EnumerateSet(cell2.tokens) :
          cell2' = [cell2 EXCEPT !.stage = "vocab", !.vocab = DictOf(order)]
    /\ UNCHANGED <<kernel, lm, pc, inp, x, blk, err, attn, steps, obj4, res4>>
    /\ UNCHANGED <<rng, expr, deps, prev, data, tpc, train, fwd>>

\* embedding = torch.nn.Embedding(len(vocab), embedding_dim)
EmbeddingLayerStep ==
    /\ cell2.stage = "vocab"
    /\ cell2' = [cell2 EXCEPT
                    !.stage = "embedding",
                    !.embedding = EmbeddingTable(Cardinality(DOMAIN cell2.vocab),
                                                 embedding_dim)]
    /\ UNCHANGED <<kernel, lm, pc, inp, x, blk, err, attn, steps, obj4, res4>>
    /\ UNCHANGED <<rng, expr, deps, prev, data, tpc, train, fwd>>

\* token_ids = [vocab[token] for token in tokens]
TokenIdsStep ==
    /\ cell2.stage = "embedding"
    /\ cell2' = [cell2 EXCEPT
                    !.stage = "token_ids",
                    !.token_ids = [i \in 1..Len(cell2.tokens) |->
                                      cell2.vocab[cell2.tokens[i]]]]
    /\ UNCHANGED <<kernel, lm, pc, inp, x, blk, err, attn, steps, obj4, res4>>
    /\ UNCHANGED <<rng, expr, deps, prev, data, tpc, train, fwd>>

\* embedded = embedding(torch.tensor(token_ids))
EmbeddedStep ==
    /\ cell2.stage = "token_ids"
    /\ LET indices == TensorOf(cell2.token_ids)
           error == EmbeddingLookupError(cell2.embedding, indices)
       IN IF error # "none"
          THEN cell2' = [cell2 EXCEPT !.stage = "raised", !.error = error]
          ELSE cell2' = [cell2 EXCEPT
                            !.stage = "embedded",
                            !.embedded = EmbeddingLookup(cell2.embedding, indices)]
    /\ UNCHANGED <<kernel, lm, pc, inp, x, blk, err, attn, steps, obj4, res4>>
    /\ UNCHANGED <<rng, expr, deps, prev, data, tpc, train, fwd>>

NextTokenizer ==
    \/ TokenizeStep
    \/ VocabStep
    \/ EmbeddingLayerStep
    \/ TokenIdsStep
    \/ EmbeddedStep

SpecTokenizer == InitTokenizer /\ [][NextTokenizer]_vars

\* ------------------------------------------ a call after a failed call
\* model(other): after a call that returned, the model is called on another
\* input, one sequence of IDs, which it may reject: its first ID is below
\* the table (-1), in it (0) or above it (vocab_size), and it may be too
\* long.  What the first call returned is kept for comparison.
LanguageModelCallOther ==
    /\ kernel = "Lesson5"
    /\ pc = "returned"
    /\ tpc = "none"
    /\ prev.kind = "none"
    /\ \E S \in 1..MaxSeq, w \in {-1, 0, lm.vocab_size} :
          inp' = [shape |-> <<1, S>>,
                  ids |-> TokenIds(1, S, lm.vocab_size, 0, 0, w)]
    /\ prev' = [kind |-> "other", res |-> [x |-> x, attn |-> attn, inp |-> inp],
                expr |-> expr, perm |-> <<>>]
    /\ pc' = "embedding"
    /\ x' = NoTensor
    /\ blk' = 0
    /\ err' = "none"
    /\ attn' = <<>>
    /\ steps' = <<>>
    /\ expr' = <<>>
    /\ deps' = <<>>
    /\ UNCHANGED <<kernel, lm, obj4, res4, rng, data, tpc, train, fwd, cell2>>

\* The caller catches the error of the failed call and calls the model again
\* on the input of the first call.
LanguageModelCallAfterError ==
    /\ kernel = "Lesson5"
    /\ pc = "raised"
    /\ tpc = "none"
    /\ prev.kind = "other"
    /\ prev' = [prev EXCEPT !.kind = "after_error", !.perm = <<err>>]
    /\ inp' = prev.res.inp
    /\ pc' = "embedding"
    /\ x' = NoTensor
    /\ blk' = 0
    /\ err' = "none"
    /\ attn' = <<>>
    /\ steps' = <<>>
    /\ expr' = <<>>
    /\ deps' = <<>>
    /\ UNCHANGED <<kernel, lm, obj4, res4, rng, data, tpc, train, fwd, cell2>>

NextRetry ==
    \/ LanguageModelEval
    \/ LanguageModelCall
    \/ EmbeddingStep
    \/ PositionalEncodingStep
    \/ TransformerBlockStep
    \/ OutputLayerStep
    \/ LanguageModelCallOther
    \/ LanguageModelCallAfterError
    \/ CallOver

SpecRetry == InitConstructed /\ [][NextRetry]_vars

\* ------------------------------- forward passes and optimizer steps
InitFrame == Init \/ InitConstructed

NextFrame ==
    \/ ConstructMultiHeadAttention4
    \/ MultiHeadAttention4Call
    \/ CallOver4
    \/ MockData
    \/ TrainZeroGrad
    \/ TrainForward
    \/ EmbeddingStep
    \/ PositionalEncodingStep
    \/ TransformerBlockStep
    \/ OutputLayerStep
    \/ TrainLoss
    \/ TrainRaised
    \/ TrainBackward
    \/ TrainStep

SpecFrame == InitFrame /\ [][NextFrame]_vars

\* -------------------------------------------- calls on other batches
\* mha(X2) for a batch X2 that holds one element of the earlier batch X as
\* its last element: alone (B = 1), or after other sequences (B = MaxBatch).
MultiHeadAttention4CallBatch ==
    /\ kernel = "Lesson4"
    /\ obj4.class = "MultiHeadAttention"
    /\ res4.status = "returned"
    /\ prev.kind = "none"
    /\ \E from \in 0..(res4.input.shape[1] - 1), B \in {1, MaxBatch},
          p \in 0..(NumPatterns - 1) :
       \E to \in {B - 1} :
          LET X2 == BatchAround(res4.input, from, B, to, p)
          IN /\ prev' = [kind |-> "batch", res |-> res4, expr |-> expr,
                         perm |-> <<from, to>>]
             /\ res4' = Result4(X2, Forward4(obj4, X2, rng))
    /\ UNCHANGED <<kernel, lm, pc, inp, x, blk, err, attn, steps, obj4>>
    /\ UNCHANGED <<rng, expr, deps, data, tpc, train, fwd, cell2>>

InitBatch == Init \/ InitConstructed

NextBatch ==
    \/ ConstructMultiHeadAttention4
    \/ MultiHeadAttention4Call
    \/ MultiHeadAttention4CallBatch
    \/ CallOver4
    \/ LanguageModelEval
    \/ LanguageModelCall
    \/ EmbeddingStep
    \/ PositionalEncodingStep
    \/ TransformerBlockStep
    \/ OutputLayerStep
    \/ CallOver

SpecBatch == InitBatch /\ [][NextBatch]_vars

\* ------------------------------- Lesson 4: steps 2 to 6 of forward, alone
\* A tensor of shape (B, S, E) whose element at (b, t, e) is that index: it
\* shows where a reshape puts each element of any tensor of this shape.
IndexTensor(B, S, E) ==
    MkTensor(<<B, S, E>>, [idx \in Index |-> SubSeq(idx, 1, 3)])

\* The features of a (B, S, E) tensor of integers that belong to head g,
\* raised by one; the others as they are.
ChangeHead(T, g, head_dim) ==
    MkTensor(T.shape,
             [idx \in Index |->
                 IF idx[3] \div head_dim = g THEN Get(T, idx) + 1
                 ELSE Get(T, idx)])

\* The locals of forward after step 1, for projections Q, K, V drawn from a
\* small family, in a module of num_heads heads.
Projected(B, S, E, num_heads, p) ==
    [stage |-> "projected", batch_size |-> B, seq_length |-> S, embed_dim |-> E,
     num_heads |-> num_heads, head_dim |-> E \div num_heads,
     T |-> IndexTensor(B, S, E),
     Q |-> InputTensor(B, S, E, p),
     K |-> InputTensor(B, S, E, p + 1),
     V |-> InputTensor(B, S, E, p + 2),
     Th |-> BadTensor, Qh |-> BadTensor, Kh |-> BadTensor, Vh |-> BadTensor,
     attn_weights |-> BadTensor, out |-> BadTensor,
     merged |-> BadTensor, Tm |-> BadTensor,
     changed |-> -1, base |-> <<>>]

InitHeads ==
    /\ kernel = "Lesson4"
    /\ lm = NoModel
    /\ pc = "idle"
    /\ inp = NoInput
    /\ x = NoTensor
    /\ blk = 0
    /\ err = "none"
    /\ attn = <<>>
    /\ steps = <<>>
    /\ obj4 = NoModule
    /\ res4 = NoResult
    /\ rng = 0
    /\ expr = <<>>
    /\ deps = <<>>
    /\ prev = NoPrev
    /\ data = NoData
    /\ tpc = "none"
    /\ train = NoTrain
    /\ cell2 = NoCell
    /\ \E B \in 1..MaxBatch, S \in 1..MaxSeq, E \in 1..MaxEmbed,
          num_heads \in 1..MaxHeads, p \in 0..(NumPatterns - 1) :
          /\ MultiHeadAttention4Init(E, num_heads, 0).status = "ok"
          /\ fwd = Projected(B, S, E, num_heads, p)

\* Step 2: Q, K and V are split into heads (and so is the index tensor).
SplitStep ==
    /\ fwd.stage = "projected"
    /\ LET split(T) == SplitHeads(T, fwd.batch_size, fwd.seq_length,
                                  fwd.num_heads, fwd.head_dim)
       IN fwd' = [fwd EXCEPT !.stage = "split",
                             !.Th = split(fwd.T), !.Qh = split(fwd.Q),
                             !.Kh = split(fwd.K), !.Vh = split(fwd.V)]
    /\ UNCHANGED <<kernel, lm, pc, inp, x, blk, err, attn, steps, obj4, res4>>
    /\ UNCHANGED <<rng, expr, deps, prev, data, tpc, train, cell2>>

\* Steps 3 to 5: scores, softmax, weighted values.
AttentionStep ==
    /\ fwd.stage = "split"
    /\ LET attn_weights == AttentionWeights(fwd.Qh, fwd.Kh)
       IN fwd' = [fwd EXCEPT !.stage = "attended",
                             !.attn_weights = attn_weights,
                             !.out = MatmulWeights(attn_weights, fwd.Vh)]
    /\ UNCHANGED <<kernel, lm, pc, inp, x, blk, err, attn, steps, obj4, res4>>
    /\ UNCHANGED <<rng, expr, deps, prev, data, tpc, train, cell2>>

\* Step 6, before self.out: the heads are merged back.
MergeStep ==
    /\ fwd.stage = "attended"
    /\ LET merge(T) == MergeHeads(T, fwd.batch_size, fwd.seq_length,
                                  fwd.embed_dim)
       IN fwd' = [fwd EXCEPT !.stage = "merged",
                             !.merged = merge(fwd.out), !.Tm = merge(fwd.Th)]
    /\ UNCHANGED <<kernel, lm, pc, inp, x, blk, err, attn, steps, obj4, res4>>
    /\ UNCHANGED <<rng, expr, deps, prev, data, tpc, train, cell2>>

\* The same steps are run again on projections that differ from the first
\* ones in the features of one head g.
ChangeHeadStep ==
    /\ fwd.stage = "merged"
    /\ fwd.changed = -1
    /\ \E g \in 0..(fwd.num_heads - 1) :
          fwd' = [fwd EXCEPT
                     !.stage = "projected",
                     !.Q = ChangeHead(@, g, fwd.head_dim),
                     !.K = ChangeHead(@, g, fwd.head_dim),
                     !.V = ChangeHead(@, g, fwd.head_dim),
                     !.changed = g,
                     !.base = [attn_weights |-> fwd.attn_weights,
                               out |-> fwd.out, merged |-> fwd.merged]]
    /\ UNCHANGED <<kernel, lm, pc, inp, x, blk, err, attn, steps, obj4, res4>>
    /\ UNCHANGED <<rng, expr, deps, prev, data, tpc, train, cell2>>

NextHeads ==
    \/ SplitStep
    \/ AttentionStep
    \/ MergeStep
    \/ ChangeHeadStep

SpecHeads == InitHeads /\ [][NextHeads]_vars

\* ================================================================ claims
\* The call of LanguageModel.forward in progress got past the named step.
InCall == pc # "idle"

PastEmbedding == pc \in {"positional_encoding", "transformer_blocks", "returned"}

PastPositional == pc \in {"transformer_blocks", "returned"}

BatchSize == inp.shape[1]

SeqLength == inp.shape[2]

\* C1: constructing MultiHeadAttention(embed_dim, num_heads) succeeds exactly
\* when embed_dim % num_heads = 0 and fails otherwise, at construction: a
\* constructed attention has head_dim * num_heads = embed_dim, and no later
\* forward fails on a module that was constructed.  Lesson 4 class (alone and
\* inside TransformerBlock) and Lesson 5 wrapper (inside LanguageModel).
C1_DivisibilityAtConstruction ==
    /\ obj4.class # "none" =>
         LET a == obj4.attention
         IN /\ (a.status = "ok") <=> (a.embed_dim % a.num_heads = 0)
            /\ (a.status = "error") <=> (a.embed_dim % a.num_heads # 0)
            /\ a.status = "ok" => a.head_dim * a.num_heads = a.embed_dim
            /\ obj4.status = a.status
    /\ (res4.status # "none" /\ res4.input.shape[3] = obj4.embed_dim) =>
         res4.status = "returned"
    /\ lm.status # "none" =>
         /\ lm.failed_at = "transformer_blocks" =>
              lm.embed_dim % lm.num_heads # 0
         /\ (lm.num_layers >= 1 /\ lm.failed_at # "positional_encoding") =>
              ((lm.status = "ok") <=> (lm.embed_dim % lm.num_heads = 0))
    /\ pc = "raised" => blk = 0

C1_Witness ==
    /\ lm.status = "error"
    /\ lm.failed_at = "transformer_blocks"
    /\ lm.embed_dim = 4
    /\ lm.num_heads = 3

\* C2: TransformerBlock.forward on an input of shape (B, S, embed_dim) returns
\* a hidden state of that same shape, for every num_heads dividing embed_dim
\* and every ff_hidden_dim; so the blocks of LanguageModel stack: every block
\* is given, and returns, shape (B, S, embed_dim).
C2_BlockKeepsShape ==
    /\ (obj4.class = "TransformerBlock" /\ res4.status # "none"
        /\ res4.input.shape[3] = obj4.embed_dim) =>
         /\ res4.status = "returned"
         /\ res4.out.shape = res4.input.shape
    /\ pc = "transformer_blocks" =>
         x.shape = <<BatchSize, SeqLength, lm.embed_dim>>
    /\ pc = "raised" => blk = 0

C2_Witness ==
    /\ obj4.class = "TransformerBlock"
    /\ res4.status = "returned"
    /\ obj4.attention.num_heads = 2
    /\ obj4.ff_hidden_dim # obj4.embed_dim
    /\ res4.out.shape = <<2, 3, 4>>

\* C3: for token IDs of shape (B, S) with S <= max_seq_length and every ID in
\* [0, vocab_size), LanguageModel.forward does not raise and returns logits of
\* shape (B, S, vocab_size), for every num_layers >= 0.
ValidInput ==
    /\ SeqLength <= lm.max_seq_length
    /\ EmbeddingOK(inp, lm.vocab_size)

C3_LogitsShape ==
    (InCall /\ ValidInput) =>
        /\ pc # "raised"
        /\ pc = "returned" => x.shape = <<BatchSize, SeqLength, lm.vocab_size>>

C3_Witness ==
    /\ pc = "returned"
    /\ ValidInput
    /\ lm.num_layers = 2
    /\ lm.vocab_size # lm.embed_dim
    /\ x.shape = <<2, 2, lm.vocab_size>>

\* C4: whenever seq_length > max_seq_length, PositionalEncoding.forward (and
\* so LanguageModel.forward) raises: the call never gets past the positional
\* encoding with rows of pe re-used or a truncated table.
C4_LongSequenceRejected ==
    (InCall /\ SeqLength > lm.max_seq_length) => ~PastPositional

\* C5: when any token ID of the input is outside [0, vocab_size),
\* LanguageModel.forward raises at the embedding lookup and computes nothing;
\* every embedded element is the row of its own ID, an ID of the table.
C5_OutOfRangeIdRejected ==
    /\ (InCall /\ pc # "embedding" /\ ~EmbeddingOK(inp, lm.vocab_size)) =>
         /\ pc = "raised"
         /\ err = "IndexError"
         /\ x = NoTensor
         /\ steps = <<>>
    /\ PastEmbedding =>
         \A b \in 0..(BatchSize - 1) : \A t \in 0..(SeqLength - 1) :
            \A d \in 0..(lm.embed_dim - 1) :
               /\ x.el[b][t][d].tok = inp.ids[b][t]
               /\ x.el[b][t][d].tok \in 0..(lm.vocab_size - 1)

C5_Witness ==
    /\ pc = "raised"
    /\ err = "IndexError"
    /\ inp.shape = <<2, 3>>
    /\ inp.ids[1][2] = lm.vocab_size

\* C6: in the attention weights MultiHeadAttention.forward of Lesson 4
\* returns, for every batch element, head and query position, the weights
\* over the key positions are non-negative fractions of one denominator whose
\* numerators add up to it: they sum to 1.
WeightRowIsDistribution(W, b, h, q) ==
    LET n == W.shape[4]
        w(k) == Get(W, <<b, h, q, k>>)
    IN /\ \A k \in 0..(n - 1) :
            w(k).num >= 0 /\ w(k).den > 0 /\ w(k).den = w(0).den
       /\ Sum([k \in 0..(n - 1) |-> w(k).num], n) = w(0).den

C6_WeightsSumToOne ==
    res4.status = "returned" =>
        LET W == res4.attn_weights
        IN /\ Len(W.shape) = 4
           /\ \A b \in 0..(W.shape[1] - 1) : \A h \in 0..(W.shape[2] - 1) :
                 \A q \in 0..(W.shape[3] - 1) : WeightRowIsDistribution(W, b, h, q)

C6_Witness ==
    /\ res4.status = "returned"
    /\ obj4.class = "MultiHeadAttention"
    /\ res4.attn_weights.shape = <<2, 2, 3, 3>>
    /\ \E q \in 0..2 : \E k \in 0..2 :
          /\ Get(res4.attn_weights, <<1, 1, q, k>>).num > 1
          /\ Get(res4.attn_weights, <<1, 1, q, k>>)
                # Get(res4.attn_weights, <<1, 1, k, q>>)

\* C7: every MultiHeadAttention.forward, of Lesson 4 and of Lesson 5, returns
\* for an input of shape (B, S, E) attention weights of shape
\* (B, num_heads, S, S), and TransformerBlock.forward returns the weights of
\* its attention unchanged.
C7_WeightsShapePerHead ==
    /\ res4.status = "returned" =>
         res4.attn_weights.shape =
             <<res4.input.shape[1], obj4.attention.num_heads,
               res4.input.shape[2], res4.input.shape[2]>>
    /\ (res4.status = "returned" /\ obj4.class = "TransformerBlock") =>
         res4.attn_weights =
             MultiHeadAttention4Forward(obj4.attention, res4.input).attn_weights
    /\ (InCall /\ attn # <<>>) =>
         attn = <<BatchSize, lm.num_heads, SeqLength, SeqLength>>

\* C8: within one LanguageModel.forward the steps are, in this order, the
\* embedding, the positional encoding, block 1, ..., block num_layers, the
\* output layer; each block runs once, on the hidden state the step before it
\* returned.
BlockVia(i) == SubSeq([k \in 1..i |-> [layer |-> "block", idx |-> k]], 1, i)

ExpectedSteps(num_layers) ==
    <<Step("embedding", 0, <<>>, <<>>),
      Step("positional_encoding", 0, <<>>, <<>>)>>
    \o SubSeq([i \in 1..num_layers |->
                 Step("block", i, BlockVia(i - 1), BlockVia(i))], 1, num_layers)
    \o <<Step("output_layer", 0, BlockVia(num_layers),
              Append(BlockVia(num_layers), [layer |-> "output_layer", idx |-> 0]))>>

C8_StepsInOrder ==
    InCall =>
        LET want == ExpectedSteps(lm.num_layers)
        IN /\ Len(steps) <= Len(want)
           /\ steps = SubSeq(want, 1, Len(steps))
           /\ pc = "transformer_blocks" =>
                 /\ Len(steps) = blk + 1
                 /\ x.via = BlockVia(blk - 1)
           /\ pc = "returned" =>
                 /\ steps = want
                 /\ x.via = want[Len(want)].out_via

C8_Witness ==
    /\ pc = "returned"
    /\ lm.num_layers = 2
    /\ Len(steps) = 5

\* C9: for seq_length <= max_seq_length, PositionalEncoding.forward returns
\* y[b, t, d] = x[b, t, d] + pe[t, d]: the row added is the row of position t,
\* the same for every batch element, and no row from seq_length on is used.
C9_PositionalAdd ==
    (PastPositional /\ SeqLength <= lm.max_seq_length) =>
        \A b \in 0..(BatchSize - 1) : \A t \in 0..(SeqLength - 1) :
           \A d \in 0..(lm.embed_dim - 1) :
              /\ x.el[b][t][d] =
                    [tok |-> inp.ids[b][t], col |-> d, pe |-> lm.pe[t][d]]
              /\ x.el[b][t][d].pe.pos = t

C9_Witness ==
    /\ pc = "transformer_blocks"
    /\ blk = 1
    /\ inp.shape = <<2, 2>>
    /\ lm.max_seq_length = 2
    /\ lm.embed_dim = 4

\* C10: the table PositionalEncoding builds is a function of embed_dim and
\* max_seq_length alone: at every position pos, column 2i holds the sine and
\* column 2i + 1 the cosine of pos * div_term[i]; so row 0 is 0 in the even
\* columns and 1 in the odd ones.
C10_TableLayout ==
    lm.status = "ok" =>
        /\ DOMAIN lm.pe = 0..(lm.max_seq_length - 1)
        /\ \A pos \in 0..(lm.max_seq_length - 1) :
              /\ DOMAIN lm.pe[pos] = 0..(lm.embed_dim - 1)
              /\ \A c \in 0..(lm.embed_dim - 1) :
                    /\ lm.pe[pos][c] =
                          [fn |-> IF c % 2 = 0 THEN "sin" ELSE "cos",
                           pos |-> pos, k |-> 2 * (c \div 2)]
                    /\ pos = 0 =>
                          /\ AngleIsZero(lm.pe[pos][c])
                          /\ EntryAtZero(lm.pe[pos][c]) = c % 2

C10_Witness ==
    /\ lm.status = "ok"
    /\ lm.embed_dim = 4
    /\ lm.max_seq_length = 2
    /\ lm.pe[1][3] = [fn |-> "cos", pos |-> 1, k |-> 2]

\* C11: TransformerBlock.forward computes x1 = norm1(x + dropout(attention(x)))
\* and x2 = norm2(x1 + dropout(ffn(x1))): the feed-forward network and the
\* second residual read x1, norm1 and norm2 are different layers, and what is
\* returned is x2 with the weights of the attention call on x.  Both lessons.
IsDropoutOf(u, t) == u = t \/ (u.op = "dropout" /\ u.args = <<t>>)

AttentionOfInput == Node("attention", <<Leaf>>, 0)

C11_BlockDataflow ==
    \A i \in 1..Len(expr) :
       LET x2 == expr[i].out
       IN /\ x2.op = "norm2"
          /\ Len(x2.args) = 1
          /\ x2.args[1].op = "add"
          /\ Len(x2.args[1].args) = 2
          /\ LET x1 == x2.args[1].args[1]
             IN /\ x1.op = "norm1"
                /\ Len(x1.args) = 1
                /\ x1.args[1].op = "add"
                /\ Len(x1.args[1].args) = 2
                /\ x1.args[1].args[1] = Leaf
                /\ IsDropoutOf(x1.args[1].args[2], AttentionOfInput)
                /\ IsDropoutOf(x2.args[1].args[2], Node("ffn", <<x1>>, 0))
          /\ expr[i].attn_weights = AttentionOfInput

C11_Witness ==
    /\ pc = "returned"
    /\ Len(expr) = 2
    /\ expr[2].out.args[1].args[2].op = "dropout"
    /\ expr[2].out.args[1].args[1].op = "norm1"

\* The Lesson 4 block has had self.attention, self.ffn, self.norm1 and
\* self.norm2 replaced by identity functions, is in eval mode (dropout
\* inactive), and its forward has returned.
IdentityBlockReturned ==
    /\ obj4.class = "TransformerBlock"
    /\ obj4.sublayers = "identity"
    /\ ~obj4.training
    /\ res4.status = "returned"

\* C12 as stated: with the attention, the feed-forward network and both
\* normalizations replaced by identity functions and dropout inactive, the
\* output of TransformerBlock.forward equals its input exactly.
C12_OutputEqualsInput ==
    IdentityBlockReturned =>
        /\ res4.out.shape = res4.input.shape
        /\ \A i \in 1..Len(res4.input.data) :
              res4.out.data[i] = res4.input.data[i]

\* C12, amended: with the attention, the feed-forward network and both
\* normalizations replaced by identity functions and dropout inactive, the
\* output of TransformerBlock.forward has the shape of its input and equals
\* four times its input, element by element (each of the two residual
\* additions adds a value to itself).
C12_OutputIsFourTimesInput ==
    IdentityBlockReturned =>
        /\ res4.out.shape = res4.input.shape
        /\ res4.out.stride = res4.input.stride
        /\ Len(res4.out.data) = Len(res4.input.data)
        /\ \A i \in 1..Len(res4.input.data) :
              res4.out.data[i] = 4 * res4.input.data[i]

C12_Witness ==
    /\ IdentityBlockReturned
    /\ res4.input.shape = <<2, 3, 2>>
    /\ \E i \in 1..Len(res4.input.data) : res4.input.data[i] # 0
    /\ \E i \in 1..Len(res4.input.data) : res4.input.data[i] = 0

\* C13: the logits LanguageModel.forward returns at position t of batch
\* element b are computed from the input tokens of that element at positions
\* 0..t only, so that two inputs agreeing there give the same logits at t.
C13_LogitsCausal ==
    pc = "returned" =>
        \A b \in 1..Len(deps) : \A t \in 1..Len(deps[b]) :
           deps[b][t] \subseteq {<<b - 1, u>> : u \in 0..(t - 1)}

\* C14: the targets paired with an input batch have the shape of the inputs
\* and are the inputs shifted by one: targets[b, t] = inputs[b, t + 1] for
\* every batch element b and every position t < seq_length - 1.
C14_TargetsShifted ==
    data # NoData =>
        /\ data.targets.shape = data.inputs.shape
        /\ \A b \in 0..(data.inputs.shape[1] - 1) :
              \A t \in 0..(data.inputs.shape[2] - 2) :
                 data.targets.ids[b][t] = data.inputs.ids[b][t + 1]

\* The mode of the module whose forward the recorded block terms come from.
InTrainingMode == IF kernel = "Lesson4" THEN obj4.training ELSE lm.training

\* A second forward pass on the same input has returned.
RepeatReturned ==
    /\ prev.kind = "repeat"
    /\ IF kernel = "Lesson4" THEN res4.status = "returned" ELSE pc = "returned"

\* What the second pass returned equals what the first returned, as values
\* and as functions of the input, the parameters and the generator's draws.
RepeatSameResult ==
    /\ expr = prev.expr
    /\ IF kernel = "Lesson4"
       THEN res4 = prev.res
       ELSE [x |-> x, attn |-> attn] = prev.res

\* C15: in eval mode the value added at each of the two residual additions of
\* TransformerBlock.forward is the attention output, respectively the
\* feed-forward output, itself (dropout is the identity), so a second forward
\* pass on the same input returns the same hidden states and weights; in
\* training mode both are dropout masks applied with distinct draws.
C15_DropoutIdentityInEval ==
    /\ \A i \in 1..Len(expr) :
          LET ff == expr[i].out.args[1].args[2]
              at == expr[i].out.args[1].args[1].args[1].args[2]
          IN IF InTrainingMode
             THEN /\ at.op = "dropout" /\ at.args[1].op = "attention"
                  /\ ff.op = "dropout" /\ ff.args[1].op = "ffn"
                  /\ at.draw # ff.draw
             ELSE /\ at.op = "attention"
                  /\ ff.op = "ffn"
    /\ (RepeatReturned /\ ~InTrainingMode) => RepeatSameResult

C15_Witness ==
    /\ kernel = "Lesson5"
    /\ ~lm.training
    /\ RepeatReturned
    /\ Len(expr) = 2
    /\ Len(prev.expr) = 2
    /\ inp.shape = <<2, 2>>

\* C16: a training step whose targets do not have the (batch, seq_length)
\* shape of its inputs is rejected before a loss is computed: whenever the
\* criterion has produced a loss, and whenever a parameter update has
\* followed, the targets of that step had the shape of the inputs.
C16_MismatchRejected ==
    /\ train.loss.iter > 0 => train.loss.targets = train.loss.inputs
    /\ tpc \in {"backward", "step"} => train.targets.shape = inp.shape

\* MultiHeadAttention.forward of Lesson 4 has returned on X and then on X with
\* its token positions reordered by prev.perm.
PermutedReturned == prev.kind = "permuted" /\ res4.status = "returned"

IdentityPerm(S) == [t \in 1..S |-> t - 1]

\* C17 as stated: for any input and any non-identity permutation of its token
\* positions, the output of MultiHeadAttention.forward on the permuted input
\* differs from its output on the original input at some position.
C17_PermutedOutputDiffers ==
    (PermutedReturned /\ prev.perm # IdentityPerm(Len(prev.perm))) =>
        \E b \in 0..(res4.out.shape[1] - 1) : \E t \in 0..(res4.out.shape[2] - 1) :
           \E d \in 0..(res4.out.shape[3] - 1) :
              Get(res4.out, <<b, t, d>>) # Get(prev.res.out, <<b, t, d>>)

\* C17, amended: the output of MultiHeadAttention.forward on the permuted
\* input is its output on the original input with the positions reordered in
\* the same way, and so are the attention weights, in queries and in keys;
\* when the permutation leaves the input as it is (it exchanges equal
\* tokens), it leaves the output as it is.
C17_PermutationEquivariant ==
    PermutedReturned =>
        LET perm == prev.perm
            O == res4.out
            W == res4.attn_weights
        IN /\ O.shape = prev.res.out.shape
           /\ W.shape = prev.res.attn_weights.shape
           /\ \A b \in 0..(O.shape[1] - 1) : \A t \in 0..(O.shape[2] - 1) :
                 \A d \in 0..(O.shape[3] - 1) :
                    Get(O, <<b, t, d>>) = Get(prev.res.out, <<b, perm[t + 1], d>>)
           /\ \A b \in 0..(W.shape[1] - 1) : \A h \in 0..(W.shape[2] - 1) :
                 \A q \in 0..(W.shape[3] - 1) : \A k \in 0..(W.shape[4] - 1) :
                    Get(W, <<b, h, q, k>>)
                       = Get(prev.res.attn_weights,
                             <<b, h, perm[q + 1], perm[k + 1]>>)
           /\ res4.input = prev.res.input => res4.out = prev.res.out

C17_Witness ==
    /\ PermutedReturned
    /\ prev.perm = <<1, 2, 0>>
    /\ res4.input # prev.res.input
    /\ res4.out # prev.res.out
    /\ obj4.attention.num_heads = 2

\* The statements of one iteration of the training loop, in program order.
IterationOps == <<"zero_grad", "forward", "loss", "backward", "step">>

\* What the training loop has done so far is a prefix of: for iteration 1,
\* 2, ... the five statements in order; forward pass k read the parameters as
\* left by exactly k - 1 updates, and none is made while it runs; update k
\* applied the gradients of batch k alone.
TrainingOrder ==
    /\ \A j \in 1..Len(train.log) :
          train.log[j] = Did(IterationOps[((j - 1) % 5) + 1], ((j - 1) \div 5) + 1)
    /\ \A k \in 1..Len(train.read) : train.read[k] = k - 1
    /\ tpc \in {"loss", "backward", "step"} => train.version = train.iter - 1
    /\ \A k \in 1..Len(train.applied) :
          train.applied[k] = [iter |-> k, grad |-> <<k>>]

C19_ForwardPassesIndependent ==
    RepeatReturned => RepeatSameResult

\* The values a block holding the tensors ids reads for its parameters from store.
BlockReads(ids, store) == [k \in 1..Len(ids) |-> store[ids[k]]]

\* C20: a constructed LanguageModel holds exactly num_layers blocks, no
\* parameter tensor of a block is a tensor of another block, of the
\* embedding or of the output layer, and writing to any parameter of block i
\* leaves what every other block j reads for its parameters unchanged.
C20_BlocksOwnParameters ==
    lm.status = "ok" =>
        LET blocks == lm.params.blocks
            tensors == 0..lm.params.output_layer
            store == [p \in tensors |-> 0]
        IN /\ Len(blocks) = lm.num_layers
           /\ \A i \in 1..Len(blocks) :
                 /\ Len(blocks[i]) = Len(BlockSlots)
                 /\ \A k \in 1..Len(blocks[i]) :
                       /\ blocks[i][k] \in tensors
                       /\ blocks[i][k] # lm.params.embedding
                       /\ blocks[i][k] # lm.params.output_layer
                       /\ \A j \in 1..Len(blocks) :
                             j # i =>
                                BlockReads(blocks[j],
                                           [store EXCEPT ![blocks[i][k]] = 1])
                                   = BlockReads(blocks[j], store)

C20_Witness ==
    /\ lm.status = "ok"
    /\ lm.num_layers = 2
    /\ Len(lm.params.blocks) = 2
    /\ lm.params.blocks[1] # lm.params.blocks[2]
    /\ pc = "returned"

\* C21: after the split, head h at position t holds features h * head_dim ..
\* (h + 1) * head_dim - 1 of the projected vector of the same batch element
\* and position; the merge writes head h's output for position t to that
\* feature range of position t; and merge(split(T)) = T.
C21_SplitMergeInverse ==
    /\ fwd.stage \in {"split", "attended", "merged"} =>
          /\ fwd.Th.shape = <<fwd.batch_size, fwd.num_heads, fwd.seq_length,
                              fwd.head_dim>>
          /\ \A b \in 0..(fwd.batch_size - 1) : \A h \in 0..(fwd.num_heads - 1) :
                \A t \in 0..(fwd.seq_length - 1) : \A d \in 0..(fwd.head_dim - 1) :
                   /\ Get(fwd.Th, <<b, h, t, d>>) = <<b, t, h * fwd.head_dim + d>>
                   /\ Get(fwd.Qh, <<b, h, t, d>>)
                         = Get(fwd.Q, <<b, t, h * fwd.head_dim + d>>)
    /\ fwd.stage = "merged" =>
          /\ fwd.Tm = fwd.T
          /\ fwd.merged.shape = <<fwd.batch_size, fwd.seq_length, fwd.embed_dim>>
          /\ \A b \in 0..(fwd.batch_size - 1) : \A h \in 0..(fwd.num_heads - 1) :
                \A t \in 0..(fwd.seq_length - 1) : \A d \in 0..(fwd.head_dim - 1) :
                   Get(fwd.merged, <<b, t, h * fwd.head_dim + d>>)
                      = Get(fwd.out, <<b, h, t, d>>)

C21_Witness ==
    /\ fwd.stage = "merged"
    /\ fwd.batch_size = 2
    /\ fwd.seq_length = 3
    /\ fwd.num_heads = 2
    /\ fwd.head_dim = 2
    /\ ~IsContiguous(fwd.Th)
    /\ Get(fwd.Th, <<1, 1, 2, 0>>) = <<1, 2, 2>>

\* Steps 3 to 5 have run on projections that differ from those of an earlier
\* run in the features of head fwd.changed only.
OtherHeadChanged == fwd.changed >= 0 /\ fwd.stage \in {"attended", "merged"}

\* C22: the attention weights of head h and its output before the output
\* projection depend on the head-h features of Q, K and V only: changing the
\* features of another head g changes neither.
C22_HeadsDoNotMix ==
    OtherHeadChanged =>
        \A h \in 0..(fwd.num_heads - 1) :
           h # fwd.changed =>
              \A b \in 0..(fwd.batch_size - 1) : \A q \in 0..(fwd.seq_length - 1) :
                 /\ \A k \in 0..(fwd.seq_length - 1) :
                       Get(fwd.attn_weights, <<b, h, q, k>>)
                          = Get(fwd.base.attn_weights, <<b, h, q, k>>)
                 /\ \A d \in 0..(fwd.head_dim - 1) :
                       Get(fwd.out, <<b, h, q, d>>) = Get(fwd.base.out, <<b, h, q, d>>)

C22_Witness ==
    /\ OtherHeadChanged
    /\ fwd.num_heads = 2
    /\ fwd.head_dim = 2
    /\ fwd.seq_length = 3
    /\ fwd.changed = 0
    /\ \E b \in 0..(fwd.batch_size - 1) : \E q \in 0..2 : \E k \in 0..2 :
          Get(fwd.attn_weights, <<b, 0, q, k>>)
             # Get(fwd.base.attn_weights, <<b, 0, q, k>>)
    /\ \E b \in 0..(fwd.batch_size - 1) : \E q \in 0..2 : \E d \in 0..1 :
          Get(fwd.out, <<b, 0, q, d>>) # Get(fwd.base.out, <<b, 0, q, d>>)

\* The Lesson 4 attention has returned on a batch X and then on a batch that
\* holds element prev.perm[1] of X at index prev.perm[2].
BatchReturned == prev.kind = "batch" /\ res4.status = "returned"

\* C23: in eval mode what forward returns for batch element b depends on
\* row b of the input only.  Lesson 4 attention: the output and the weights
\* for a sequence are the same whatever batch it is part of and wherever in
\* it.  Lesson 5: every hidden state and logit of element b is computed from
\* positions of element b alone, through the wrapper's transposes too.
C23_BatchElementsIndependent ==
    /\ BatchReturned =>
          LET from == prev.perm[1]
              to == prev.perm[2]
              O == res4.out
              W == res4.attn_weights
          IN /\ \A t \in 0..(O.shape[2] - 1) : \A d \in 0..(O.shape[3] - 1) :
                   Get(O, <<to, t, d>>) = Get(prev.res.out, <<from, t, d>>)
             /\ \A h \in 0..(W.shape[2] - 1) : \A q \in 0..(W.shape[3] - 1) :
                   \A k \in 0..(W.shape[4] - 1) :
                      Get(W, <<to, h, q, k>>)
                         = Get(prev.res.attn_weights, <<from, h, q, k>>)
    /\ (kernel = "Lesson5" /\ ~lm.training /\ InCall) =>
          \A b \in 1..Len(deps) : \A t \in 1..Len(deps[b]) :
             deps[b][t] \subseteq {<<b - 1, u>> : u \in 0..(SeqLength - 1)}

C23_Witness ==
    /\ BatchReturned
    /\ prev.perm = <<0, 1>>
    /\ prev.res.input.shape = <<2, 3, 4>>
    /\ res4.input.shape = <<2, 3, 4>>
    /\ res4.input # prev.res.input
    /\ obj4.attention.num_heads = 2
    /\ \E t \in 0..2 : \E d \in 0..3 :
          Get(res4.out, <<0, t, d>>) # Get(prev.res.out, <<1, t, d>>)

\* C24: after any forward passes and optimizer steps every entry of pe is
\* what the constructor computed from embed_dim and max_seq_length, and pe
\* is not among the parameters handed to the optimizer.
C24_TableImmutable ==
    lm.status = "ok" =>
        /\ lm.pe = PositionalEncodingInit(lm.embed_dim, lm.max_seq_length).pe
        /\ "pe" \notin Parameters(lm).tables

C24_Witness ==
    /\ tpc = "done"
    /\ train.version = MaxIters
    /\ lm.embed_dim = 4
    /\ lm.max_seq_length = 2
    /\ lm.num_layers = 1
    /\ lm.pe[1][0].fn = "sin"

\* A forward pass of LanguageModel is in progress.
ForwardRunning == pc \in {"embedding", "positional_encoding", "transformer_blocks"}

\* C25: a forward pass leaves every parameter and the caller's input as they
\* are, and parameters change in an optimizer step only: the version of the
\* parameters changes in optimizer.step() alone; while a LanguageModel
\* forward runs, the parameters, the table and the token IDs stay; a call of
\* the Lesson 4 attention leaves its projections as constructed and its
\* input X as drawn.
C25_ForwardLeavesParameters ==
    /\ [][/\ train'.version # train.version => tpc = "step"
          /\ ForwardRunning =>
                /\ train'.version = train.version
                /\ lm' = lm
                /\ inp' = inp
          /\ obj4.status = "ok" => obj4' = obj4]_vars
    /\ [](res4.status = "returned" =>
            /\ \E seed \in 0..(NumSeeds - 1) :
                  obj4.attention
                     = MultiHeadAttention4Init(obj4.embed_dim,
                                               obj4.attention.num_heads, seed)
            /\ \E p \in 0..(NumPatterns - 1) :
                  res4.input = InputTensor(res4.input.shape[1], res4.input.shape[2],
                                           res4.input.shape[3], p))

C25_Witness ==
    /\ tpc = "backward"
    /\ pc = "returned"
    /\ train.iter = 2
    /\ train.version = 1
    /\ inp = data.inputs
    /\ inp.shape = <<2, 3>>
    /\ lm.num_layers = 2

\* A call has followed a failed call, on the input of an earlier call that
\* had returned.
AfterError == prev.kind = "after_error"

\* C26: a failing LanguageModel.forward stops at the failing statement with
\* the error set and leaves the model, its table and its parameters as they
\* were; in eval mode the next call on a valid input returns, and returns
\* what the call on that input returned before the failure.
C26_FailedCallLeavesModel ==
    /\ [][pc' = "raised" =>
             /\ err' \in {"IndexError", "RuntimeError"}
             /\ lm' = lm
             /\ train' = train
             /\ rng' = rng]_vars
    /\ [][pc = "raised" => pc' \in {"raised", "idle", "embedding"}]_vars
    /\ []((AfterError /\ ~lm.training) =>
            /\ pc # "raised"
            /\ pc = "returned" => [x |-> x, attn |-> attn, inp |-> inp] = prev.res)

C26_Witness ==
    /\ AfterError
    /\ ~lm.training
    /\ pc = "returned"
    /\ prev.perm = <<"RuntimeError">>
    /\ lm.num_layers = 2
    /\ lm.max_seq_length = 2
    /\ inp.shape = <<2, 2>>

\* The attention weights W with query axis and key axis reordered by perm.
PermuteQueriesAndKeys(W, perm) ==
    MkTensor(W.shape,
             [idx \in Index |->
                 Get(W, <<idx[1], idx[2], perm[idx[3] + 1], perm[idx[4] + 1]>>)])

\* The elements of a tensor by index, whatever its strides and storage.
Elements(T) ==
    SubSeq([o \in 1..Numel(T.shape) |-> Get(T, Unravel(o - 1, T.shape))],
           1, Numel(T.shape))

\* C27: self-attention without positional encoding is permutation-equivariant:
\* for every permutation p of the positions, forward on X[:, p, :] returns
\* (out[:, p, :], attn_weights[:, :, p, :][:, :, :, p]) where (out,
\* attn_weights) is what forward returned on X, the parameters being the same.
C27_SelfAttentionEquivariant ==
    (prev.kind = "permuted" /\ res4.status = "returned") =>
        /\ Elements(res4.input) = Elements(PermuteRows(prev.res.input, prev.perm))
        /\ Elements(res4.out) = Elements(PermuteRows(prev.res.out, prev.perm))
        /\ Elements(res4.attn_weights)
              = Elements(PermuteQueriesAndKeys(prev.res.attn_weights, prev.perm))
        /\ \E seed \in 0..(NumSeeds - 1) :
              obj4.attention = MultiHeadAttention4Init(obj4.attention.embed_dim,
                                                       obj4.attention.num_heads,
                                                       seed)

C27_Witness ==
    /\ prev.kind = "permuted"
    /\ res4.status = "returned"
    /\ prev.perm = <<0, 2, 1>>
    /\ res4.input.shape = <<2, 3, 4>>
    /\ obj4.attention.num_heads = 2
    /\ Elements(res4.attn_weights) # Elements(prev.res.attn_weights)
    /\ Elements(res4.out) # Elements(prev.res.out)

\* PositionalEncoding.__init__ returned (whatever the rest of the model's
\* constructor did then).
TableConstructed == kernel = "Lesson5" /\ lm.failed_at # "positional_encoding"

\* Columns of the table that hold entries of function fn at every position.
ColumnsOf(fn) ==
    {c \in 0..(lm.embed_dim - 1) :
        \A pos \in 0..(lm.max_seq_length - 1) :
           lm.pe[pos][c].fn = fn /\ lm.pe[pos][c].pos = pos}

\* C28 as stated: the table is constructed, fully filled, exactly when
\* embed_dim is even; for odd embed_dim construction raises.
C28_ConstructedIffEven ==
    kernel = "Lesson5" => (TableConstructed <=> lm.embed_dim % 2 = 0)

\* C28, amended: the table is constructed exactly when embed_dim is even or
\* 1, and is then fully filled: embed_dim / 2 sine and embed_dim / 2 cosine
\* columns for even embed_dim, the single sine column for embed_dim 1; for
\* odd embed_dim >= 3 construction raises and no table is returned.
C28_ConstructedIffEvenOrOne ==
    kernel = "Lesson5" =>
        /\ TableConstructed <=> (lm.embed_dim % 2 = 0 \/ lm.embed_dim = 1)
        /\ TableConstructed =>
              /\ DOMAIN lm.pe = 0..(lm.max_seq_length - 1)
              /\ ColumnsOf("sin") \cup ColumnsOf("cos") = 0..(lm.embed_dim - 1)
              /\ Cardinality(ColumnsOf("sin")) = DivTermLen(lm.embed_dim)
              /\ Cardinality(ColumnsOf("cos")) = lm.embed_dim \div 2
        /\ ~TableConstructed => lm.pe = <<>> /\ lm.status = "error"

C28_Witness ==
    /\ TableConstructed
    /\ lm.embed_dim = 1
    /\ lm.max_seq_length = 2
    /\ lm.pe[1][0] = [fn |-> "sin", pos |-> 1, k |-> 0]
    /\ lm.status = "ok"

\* The token an ID stands for.
Decode(vocab, id) == CHOOSE token \in DOMAIN vocab : vocab[token] = id

\* What the cell of Lesson 2 has built so far is consistent: the vocabulary
\* gives every distinct token one ID, different tokens different IDs, the IDs
\* being 0 .. len(vocab) - 1; the embedding table has len(vocab) rows; every
\* entry of token_ids is a row of it and decodes to the token at its place;
\* and an embedded result has, at place i, the row of the ID of token i.
TokenizerConsistent ==
    LET c == cell2
        n == Cardinality(DOMAIN c.vocab)
        after(stages) == c.stage \in stages \cup {"embedded", "raised"}
    IN /\ after({"vocab", "embedding", "token_ids"}) =>
             /\ DOMAIN c.vocab = {c.tokens[i] : i \in 1..Len(c.tokens)}
             /\ \A s \in DOMAIN c.vocab : \A t \in DOMAIN c.vocab :
                   c.vocab[s] = c.vocab[t] => s = t
             /\ {c.vocab[t] : t \in DOMAIN c.vocab} = 0..(n - 1)
       /\ after({"embedding", "token_ids"}) => c.embedding.shape[1] = n
       /\ after({"token_ids"}) =>
             /\ Len(c.token_ids) = Len(c.tokens)
             /\ \A i \in 1..Len(c.token_ids) :
                   /\ c.token_ids[i] \in 0..(c.embedding.shape[1] - 1)
                   /\ Decode(c.vocab, c.token_ids[i]) = c.tokens[i]
       /\ c.stage = "embedded" =>
             /\ c.embedded.shape = <<Len(c.tokens), embedding_dim>>
             /\ \A i \in 1..Len(c.tokens) :
                   c.embedded.rows[i] = c.embedding.weight[c.vocab[c.tokens[i]]]

C29_EmbeddedRepeatedToken ==
    /\ cell2.stage = "embedded"
    /\ cell2.text = <<"a", " ", "b", "a">>
    /\ cell2.tokens = << <<"a">>, <<"b", "a">> >>

\* The embedding statement has raised for a text without tokens.
C29_EmptyTextRaised ==
    /\ cell2.stage = "raised"
    /\ cell2.tokens = <<>>
    /\ cell2.error = "RuntimeError"

====
